---- MODULE Spec2Model ----
(***************************************************************************)
(* The collaborative PDF session of visatk/vite-app: the Durable Object    *)
(* PDFSession (Session Coordinator) and the messages it exchanges with the *)
(* editor clients.  The repository holds two implementations of PDFSession *)
(* (src/unnamed/part_001 and src/worker/pdf-session.ts); both are modelled *)
(* and the variable impl says which one a behaviour runs.  The editor's    *)
(* modifyPdf (PDF Mutation Engine, src/src/components/pdf-editor.tsx) is   *)
(* modelled as an operator that downloadPdf applies.  The HTTP handlers    *)
(* (upload, download, save-changes), the router of src/unnamed/part_000    *)
(* with one object and one bucket key per document, and the editor's       *)
(* onmessage and syncAnnotations have their own specifications, and so    *)
(* have the editor's triggerAi, handlePageTap and undoAnnotation, the      *)
(* dispatch in PDFSession.fetch, and the object being constructed again.   *)
(***************************************************************************)
EXTENDS Integers, Sequences, FiniteSets, Bags, TLC

VARIABLES
  impl,         \* which PDFSession implementation this behaviour runs
  chan,         \* the state of every WebSocket (server end)
  sessions,     \* PDFSession.sessions, a Set: its elements in insertion order
  annotations,  \* PDFSession.annotations
  bucket,       \* the R2 object stored under pdfKey
  jobs,         \* the invocations of runAiSummary in flight: a bag of [ws, pc]
  out,          \* the messages the last step sent, in the order sent (those
                \* not yet taken by onmessage, where the editors are modelled)
  last,         \* the last step: the handler that ran, its arguments, its outcome
  synced,       \* history: the list of the last sync-annotations processed
  inbox,        \* per socket, the messages its client has sent that wait for
                \* webSocketMessage, oldest first
  file,             \* the editor's PDF: its pages
  clientAnnotations,\* the editor's annotation list
  deletedPages,     \* the editor's list of deleted page indices
  modifiedBytes,    \* what modifyPdf returned to downloadPdf
  previousBytes,    \* what modifyPdf returned to the downloadPdf before that
  local,            \* per socket, the annotation list of the editor at its
                    \* client end
  aiStatus,         \* per socket, the aiStatus of the editor at its client end
  pending,          \* per socket, the image read the editor has started: the
                    \* annotation list its onload handler closed over
  objects,          \* the PDFSession objects made so far, by id: the fields
                    \* annotations and sessions of each
  store,            \* the R2 bucket: the objects put so far, by key
  routed            \* the id of the object the last request went to

sessionVars == <<impl, chan, sessions, annotations, bucket, jobs, out, last, synced>>
editorVars == <<file, clientAnnotations, deletedPages, modifiedBytes, previousBytes, local,
                aiStatus, pending>>
shardVars == <<objects, store, routed>>
vars == <<sessionVars, inbox, editorVars, shardVars>>

----------------------------------------------------------------------------
\* Bounds of the model.

NumSockets == 3     \* WebSockets that are ever opened
NumAiSockets == 2   \* of these, the sockets of the behaviours with ai-summarize
MaxJobs == 2        \* invocations of runAiSummary in flight at the same time
MaxInFlight == 2    \* messages sent and not yet handed to webSocketMessage
MaxPages == 3       \* pages of the PDF the editor has loaded
MaxAnns == 2        \* annotations in the editor's list

Sockets == 1..NumSockets
AiSockets == 1..NumAiSockets
NoSocket == 0       \* broadcast's optional argument source left undefined
Impls == {"part_001", "worker"}

\* An annotation is identified by its id; these are the lists clients send.
AnnLists == {<<>>, <<"a1">>, <<"a2">>, <<"a1", "a2">>}
AiAnnLists == {<<"a1">>}
OrderAnnLists == {<<"a1">>, <<"a1", "a2">>}
PageLists == {<<0>>}
Files == {"f1"}
NoObject == "absent"

----------------------------------------------------------------------------
\* Messages.  A message travels as text; JSONstringify and JSONparse convert
\* between a value and its text.  Text that is not JSON does not parse.

\* What a field holds that is no list of annotations: undefined, the value
\* of a field that is not there, and an object.  They are told from the
\* lists by their element, which is no annotation.
undefined == <<"undefined">>
AnObject == <<"{}">>
Field(data, name) == IF name \in DOMAIN data THEN data[name] ELSE undefined

\* JSON.stringify leaves out a property whose value is undefined.
JSONstringify(v) ==
  [json |-> IF "annotations" \in DOMAIN v /\ v.annotations = undefined
              THEN [f \in DOMAIN v \ {"annotations"} |-> v[f]]
              ELSE v]
NotJson == [junk |-> "{"]
NoText == [none |-> TRUE]
SyntaxError == [threw |-> "SyntaxError"]
JSONparse(text) == IF "json" \in DOMAIN text THEN text.json ELSE SyntaxError
NullValue == [null |-> TRUE]

SyncAnnotations(l) == [type |-> "sync-annotations", annotations |-> l]
SyncDeletedPages(d) == [type |-> "sync-deleted-pages", deletedPages |-> d]
CursorMove == [type |-> "cursor-move", x |-> 0, y |-> 0, page |-> 1, clientId |-> "c"]
AiSummarize == [type |-> "ai-summarize"]
AiStatus(s) == [type |-> "ai-status", status |-> s]
AiResult(t) == [type |-> "ai-result", text |-> t]
AiError(m) == [type |-> "ai-error", message |-> m]
UnknownType == [type |-> "ping"]

Summary == "summary"
NoPdfText == "Error: No PDF file found in session."
FailedText == "Error processing document analysis."

\* Text.  A text is known by where it comes from (the PDF it was extracted
\* from, or a literal of the program) and by the characters of that source
\* it holds: those after the first from, up to the first to.
TokenLimit == 12000
SummaryFiles == {"blank", "f1", "limit", "over", "long"}
TextLength(object) ==
  CASE object = "blank" -> 0
    [] object = "f1" -> 300
    [] object = "limit" -> 12000
    [] object = "over" -> 12001
    [] object = "long" -> 30000
Min(a, b) == IF a <= b THEN a ELSE b
Length(text) == text.to - text.from
\* unpdf's extractText with mergePages: the text of the document.
extractText(object) == [of |-> object, from |-> 0, to |-> TextLength(object)]
\* The user content of the older implementation, a literal of 47 characters.
Purpose == [of |-> "Summarize the purpose of a PDF document editor.", from |-> 0, to |-> 47]

\* Variant: the text is not cut.
whole(text, start, end) == text

\* String.slice(start, end) for 0 <= start <= end.
slice(text, start, end) ==
  [of |-> text.of,
   from |-> text.from + Min(start, Length(text)),
   to |-> text.from + Min(end, Length(text))]

\* The messages handed to AI.run: the content of the user message.
Submitted(content) == [content |-> content]

\* What a client may put on its socket: in the behaviours of Spec, and in
\* the behaviours of SpecAi.
ClientTexts ==
  {JSONstringify(SyncAnnotations(l)) : l \in AnnLists}
    \cup {JSONstringify(SyncDeletedPages(d)) : d \in PageLists}
    \cup {JSONstringify(CursorMove), JSONstringify(UnknownType),
          JSONstringify(NullValue), NotJson}
AiClientTexts ==
  {JSONstringify(SyncAnnotations(l)) : l \in AiAnnLists}
    \cup {JSONstringify(AiSummarize)}

OrderTexts == {JSONstringify(SyncAnnotations(l)) : l \in OrderAnnLists}

\* sync-annotations with a list, without the annotations field, and with an
\* object in it.
ShapeTexts ==
  {JSONstringify(SyncAnnotations(<<"a1">>)),
   JSONstringify([type |-> "sync-annotations"]),
   JSONstringify(SyncAnnotations(AnObject))}

\* Variant: every message is taken for a sync-annotations.
AlwaysSyncAnnotations(data) == "sync-annotations"

\* data.type
TypeOf(data) == IF "type" \in DOMAIN data THEN data.type ELSE "undefined"

----------------------------------------------------------------------------
\* Sockets.  A socket is "fresh" until the upgrade request arrives, "open"
\* once accepted, "closing" when the peer has gone and the close event has not
\* been handled yet, and "closed" once webSocketClose has run.  send() on a
\* socket that is not open throws.

CanSend(ws) == ws \in Sockets /\ chan[ws] = "open"
Sent(ws, text) == [to |-> ws, msg |-> text]

SeqToSet(q) == {q[i] : i \in 1..Len(q)}
SetAdd(q, e) == IF e \in SeqToSet(q) THEN q ELSE Append(q, e)

\* Variant: deleting an element that is absent drops the oldest element.
SetDeleteOrEvict(q, e) ==
  IF e \in SeqToSet(q) THEN SelectSeq(q, LAMBDA x : x # e) ELSE SubSeq(q, 2, Len(q))

\* Set.delete: the Set without e; what it returns says whether e was in it.
SetDelete(q, e) == SelectSeq(q, LAMBDA x : x # e)
Deleted(q, e) == IF e \in SeqToSet(q) THEN "true" ELSE "false"

NoStep == [op |-> "none", ws |-> NoSocket, text |-> NoText, result |-> "none",
           threw |-> FALSE]
Step(op, ws, text, result, threw) ==
  [op |-> op, ws |-> ws, text |-> text, result |-> result, threw |-> threw]

\* Variant: no try around the image embedding.
noCatch(throws) == throws

\* Variant: the catch block throws the error again.
rethrow(throws) == throws

\* try { ... } catch (e) { console.error(...) }: what the block throws when
\* its body throws or does not.
tryCatch(throws) == FALSE

\* An invocation of runAiSummary suspended at pc for the requestor ws.
Job(ws, pc) == [ws |-> ws, pc |-> pc]
Resume(job, pc) == (jobs (-) SetToBag({job})) (+) SetToBag({Job(job.ws, pc)})
Finish(job) == jobs (-) SetToBag({job})

InitSession ==
  /\ impl \in Impls
  /\ chan = [s \in Sockets |-> "fresh"]
  /\ sessions = <<>>
  /\ annotations = <<>>
  /\ jobs = EmptyBag
  /\ out = <<>>
  /\ last = NoStep
  /\ synced = <<>>

\* No message is in flight.
InitInbox == inbox = [s \in Sockets |-> <<>>]

\* The documents, by id.  No request was routed: no PDFSession is made for
\* an id and nothing is put under a key.
Docs == {"A", "B"}
NoId == "none"

\* Variant: one key for every object.
pdfKeyOfBucket(id) == <<"document", ".pdf">>

\* this.pdfKey, from `${this.ctx.id.toString()}.pdf`.
pdfKey(id) == <<id, ".pdf">>

NotMade == [made |-> FALSE, annotations |-> <<>>, sessions |-> <<>>]
InitShards ==
  /\ objects = [d \in Docs |-> NotMade]
  /\ store = [k \in {pdfKey(d) : d \in Docs} |-> NoObject]
  /\ routed = NoId

\* useState("idle") for aiStatus; no FileReader is reading.
NotReading == [reading |-> FALSE, annotations |-> <<>>]
InitStatus ==
  /\ aiStatus = [s \in Sockets |-> "idle"]
  /\ pending = [s \in Sockets |-> NotReading]

\* The editor has no PDF loaded and modifyPdf has not been called.
NoFile == <<>>
NoBytes == [none |-> TRUE]
InitEditor ==
  /\ file = NoFile
  /\ clientAnnotations = <<>>
  /\ deletedPages = <<>>
  /\ modifiedBytes = NoBytes
  /\ previousBytes = NoBytes
  /\ local = [s \in Sockets |-> <<>>]
  /\ InitStatus

Init == InitSession /\ bucket = NoObject /\ InitInbox /\ InitShards /\ InitEditor

\* The bucket outlives the object: a PDF may have been uploaded before.
InitAi == InitSession /\ bucket \in Files \cup {NoObject} /\ InitInbox /\ InitShards /\ InitEditor

\* The runtime hands webSocketMessage the messages of a socket in the order
\* the socket carried them: the oldest message waiting, or, when none waits,
\* a message that the client sends and the runtime hands over in this step.
Arrives(ws, message) ==
  IF inbox[ws] = <<>>
    THEN UNCHANGED inbox
    ELSE /\ message = Head(inbox[ws])
         /\ inbox' = [inbox EXCEPT ![ws] = Tail(@)]

----------------------------------------------------------------------------
\* src/unnamed/part_001

\* Variant: messages wait until no invocation of runAiSummary is in flight.
DeliversWhenIdle(ws) == chan[ws] \in {"open", "closing"} /\ jobs = EmptyBag

\* The runtime hands a message of ws to webSocketMessage while the socket is
\* accepted and its close event has not been handled.  webSocketMessage does
\* not await runAiSummary (it hands the promise to waitUntil), so the
\* invocations in flight delay no message.
Delivers(ws) == chan[ws] \in {"open", "closing"}

\* Variant: the initial state sent is always the empty list.
InitialStateEmpty == JSONstringify(SyncAnnotations(<<>>))

\* handleWebSocket: accept the socket, register it, send the initial state.
InitialState == JSONstringify(SyncAnnotations(annotations))

handleWebSocket(ws) ==
  /\ impl = "part_001"
  /\ chan[ws] = "fresh"
  /\ chan' = [chan EXCEPT ![ws] = "open"]
  /\ sessions' = SetAdd(sessions, ws)
  /\ out' = <<Sent(ws, InitialState)>>
  /\ last' = Step("handleWebSocket", ws, NoText, "101", FALSE)
  /\ UNCHANGED <<impl, annotations, bucket, jobs, synced>>
  /\ UNCHANGED <<inbox, editorVars, shardVars>>

\* broadcast: every session but source is sent msg; a session whose send
\* throws is deleted and the loop goes on.  acc is the Set and the messages
\* sent so far; rest is what the iteration has not visited yet.
RECURSIVE broadcastLoop(_, _, _, _)
broadcastLoop(rest, msg, source, acc) ==
  IF rest = <<>> THEN acc
  ELSE LET session == Head(rest) IN
       IF session = source
         THEN broadcastLoop(Tail(rest), msg, source, acc)
       ELSE IF CanSend(session)
         THEN broadcastLoop(Tail(rest), msg, source,
                            [acc EXCEPT !.out = Append(@, Sent(session, msg))])
       ELSE broadcastLoop(Tail(rest), msg, source,
                          [acc EXCEPT !.sessions = SetDelete(@, session)])

broadcast(msg, source) ==
  broadcastLoop(sessions, msg, source,
                [sessions |-> sessions, out |-> <<>>, threw |-> FALSE])

\* Variant: runAiSummary sends no status before its first await.
runAiSummaryStartSilent(requestorWs) ==
  [jobs |-> jobs (+) SetToBag({Job(requestorWs, "get")}), out |-> <<>>]

\* runAiSummary up to its first await: the status goes to the requestor; a
\* throwing send rejects the promise handed to waitUntil.
runAiSummaryStart(requestorWs) ==
  IF CanSend(requestorWs)
    THEN [jobs |-> jobs (+) SetToBag({Job(requestorWs, "get")}),
          out |-> <<Sent(requestorWs, JSONstringify(AiStatus("thinking")))>>]
    ELSE [jobs |-> jobs, out |-> <<>>]

webSocketMessage(ws, message) ==
  /\ impl = "part_001"
  /\ Delivers(ws)
  /\ LET data == JSONparse(message)
         caught == data = SyntaxError \/ data = NullValue
         type == IF caught THEN "undefined" ELSE TypeOf(data)
     IN
     CASE type = "sync-annotations" ->
            LET b == broadcast(message, ws) IN
            /\ annotations' = Field(data, "annotations")
            /\ synced' = Field(data, "annotations")
            /\ sessions' = b.sessions
            /\ out' = b.out
            /\ UNCHANGED jobs
       [] type = "cursor-move" ->
            LET b == broadcast(message, ws) IN
            /\ sessions' = b.sessions
            /\ out' = b.out
            /\ UNCHANGED <<annotations, jobs, synced>>
       [] type = "ai-summarize" ->
            /\ BagCardinality(jobs) < MaxJobs
            /\ LET r == runAiSummaryStart(ws) IN
               /\ jobs' = r.jobs
               /\ out' = r.out
            /\ UNCHANGED <<annotations, sessions, synced>>
       [] OTHER ->
            /\ out' = <<>>
            /\ UNCHANGED <<annotations, sessions, jobs, synced>>
  /\ last' = Step("webSocketMessage", ws, message, "ok", FALSE)
  /\ UNCHANGED <<impl, chan, bucket>>
  /\ Arrives(ws, message)
  /\ UNCHANGED <<editorVars, shardVars>>

webSocketClose(ws) ==
  /\ impl = "part_001"
  /\ chan[ws] = "closing"
  /\ chan' = [chan EXCEPT ![ws] = "closed"]
  /\ sessions' = SetDelete(sessions, ws)
  /\ out' = <<>>
  /\ last' = Step("webSocketClose", ws, NoText, Deleted(sessions, ws), FALSE)
  /\ UNCHANGED <<impl, annotations, bucket, jobs, synced>>
  /\ UNCHANGED <<inbox, editorVars, shardVars>>

\* runAiSummary resumes after PDF_BUCKET.get.
runAiSummaryGet(job) ==
  /\ impl = "part_001"
  /\ job.pc = "get"
  /\ LET requestorWs == job.ws IN
     IF bucket = NoObject
       THEN /\ jobs' = Finish(job)
            /\ IF CanSend(requestorWs)
                 THEN /\ out' = <<Sent(requestorWs, JSONstringify(AiResult(NoPdfText)))>>
                      /\ last' = Step("runAiSummary", requestorWs, NoText, "nopdf", FALSE)
                 ELSE /\ out' = <<>>
                      /\ last' = Step("runAiSummary", requestorWs, NoText, "nopdf", TRUE)
       ELSE /\ jobs' = Resume(job, "run")
            /\ out' = <<>>
            /\ last' = Step("runAiSummary", requestorWs, NoText, "pending", FALSE)
  /\ UNCHANGED <<impl, chan, sessions, annotations, bucket, synced>>
  /\ UNCHANGED <<inbox, editorVars, shardVars>>

\* runAiSummary resumes after text extraction and AI.run: with the summary
\* (ok), or in its catch block because one of them threw.  With the summary
\* the step records what AI.run was given.
runAiSummaryRun(job, ok) ==
  /\ impl = "part_001"
  /\ job.pc = "run"
  /\ jobs' = Finish(job)
  /\ LET requestorWs == job.ws
         resultMsg == JSONstringify(AiResult(Summary))
         errorMsg == JSONstringify(AiResult(FailedText))
         b == broadcast(resultMsg, NoSocket)
         safeText == extractText(bucket)
         truncatedText == slice(safeText, 0, TokenLimit)
     IN
     IF ok
       THEN /\ sessions' = b.sessions
            /\ IF CanSend(requestorWs)
                 THEN /\ out' = Append(b.out, Sent(requestorWs, resultMsg))
                      /\ last' = Step("runAiSummary", requestorWs, Submitted(truncatedText),
                                      "summary", FALSE)
                 ELSE \* the send throws inside try; the send in catch throws again
                      /\ out' = b.out
                      /\ last' = Step("runAiSummary", requestorWs, Submitted(truncatedText),
                                      "summary", TRUE)
       ELSE /\ UNCHANGED sessions
            /\ IF CanSend(requestorWs)
                 THEN /\ out' = <<Sent(requestorWs, errorMsg)>>
                      /\ last' = Step("runAiSummary", requestorWs, NoText, "failed", FALSE)
                 ELSE /\ out' = <<>>
                      /\ last' = Step("runAiSummary", requestorWs, NoText, "failed", TRUE)
  /\ UNCHANGED <<impl, chan, annotations, bucket, synced>>
  /\ UNCHANGED <<inbox, editorVars, shardVars>>

----------------------------------------------------------------------------
\* src/worker/pdf-session.ts

\* webSocketMessage awaits runAiSummary: that suspends this invocation of the
\* handler at the calls of the collaborators, and the object takes other
\* events in the meantime.
DeliversW(ws) == chan[ws] \in {"open", "closing"}

InitialStateW == JSONstringify(SyncAnnotations(annotations))

handleWebSocketW(ws) ==
  /\ impl = "worker"
  /\ chan[ws] = "fresh"
  /\ chan' = [chan EXCEPT ![ws] = "open"]
  /\ sessions' = SetAdd(sessions, ws)
  /\ out' = <<Sent(ws, InitialStateW)>>
  /\ last' = Step("handleWebSocket", ws, NoText, "101", FALSE)
  /\ UNCHANGED <<impl, annotations, bucket, jobs, synced>>
  /\ UNCHANGED <<inbox, editorVars, shardVars>>

\* broadcast: every session but source is sent msg; a send that throws ends
\* the loop and the exception leaves broadcast.
RECURSIVE broadcastLoopW(_, _, _, _)
broadcastLoopW(rest, msg, source, acc) ==
  IF rest = <<>> THEN acc
  ELSE LET session == Head(rest) IN
       IF session = source
         THEN broadcastLoopW(Tail(rest), msg, source, acc)
       ELSE IF CanSend(session)
         THEN broadcastLoopW(Tail(rest), msg, source,
                             [acc EXCEPT !.out = Append(@, Sent(session, msg))])
       ELSE [acc EXCEPT !.threw = TRUE]

broadcastW(msg, source) ==
  broadcastLoopW(sessions, msg, source,
                 [sessions |-> sessions, out |-> <<>>, threw |-> FALSE])

\* webSocketMessage has no try: what JSON.parse, data.type or broadcast throw
\* leaves the handler.  ai-summarize awaits runAiSummary, which runs up to
\* its first await, PDF_BUCKET.get.
webSocketMessageW(ws, message) ==
  /\ impl = "worker"
  /\ DeliversW(ws)
  /\ LET data == JSONparse(message)
         throws == data = SyntaxError \/ data = NullValue
         type == IF throws THEN "undefined" ELSE TypeOf(data)
     IN
     CASE type = "sync-annotations" ->
            LET b == broadcastW(message, ws) IN
            /\ annotations' = Field(data, "annotations")
            /\ synced' = Field(data, "annotations")
            /\ out' = b.out
            /\ last' = Step("webSocketMessage", ws, message, "ok", b.threw)
            /\ UNCHANGED jobs
       [] type = "cursor-move" ->
            LET b == broadcastW(message, ws) IN
            /\ out' = b.out
            /\ last' = Step("webSocketMessage", ws, message, "ok", b.threw)
            /\ UNCHANGED <<annotations, jobs, synced>>
       [] type = "ai-summarize" ->
            /\ BagCardinality(jobs) < MaxJobs
            /\ jobs' = jobs (+) SetToBag({Job(ws, "get")})
            /\ out' = <<>>
            /\ last' = Step("webSocketMessage", ws, message, "pending", FALSE)
            /\ UNCHANGED <<annotations, synced>>
       [] OTHER ->
            /\ out' = <<>>
            /\ last' = Step("webSocketMessage", ws, message, "ok", throws)
            /\ UNCHANGED <<annotations, jobs, synced>>
  /\ UNCHANGED <<impl, chan, sessions, bucket>>
  /\ Arrives(ws, message)
  /\ UNCHANGED <<editorVars, shardVars>>

webSocketCloseW(ws) ==
  /\ impl = "worker"
  /\ chan[ws] = "closing"
  /\ chan' = [chan EXCEPT ![ws] = "closed"]
  /\ sessions' = SetDelete(sessions, ws)
  /\ out' = <<>>
  /\ last' = Step("webSocketClose", ws, NoText, Deleted(sessions, ws), FALSE)
  /\ UNCHANGED <<impl, annotations, bucket, jobs, synced>>
  /\ UNCHANGED <<inbox, editorVars, shardVars>>

\* runAiSummary resumes after PDF_BUCKET.get: without an object it returns;
\* with one it sends the status, and a throwing send leaves runAiSummary and
\* the webSocketMessage that awaits it.
runAiSummaryGetW(job) ==
  /\ impl = "worker"
  /\ job.pc = "get"
  /\ LET ws == job.ws IN
     IF bucket = NoObject
       THEN /\ jobs' = Finish(job)
            /\ out' = <<>>
            /\ last' = Step("runAiSummary", ws, NoText, "nopdf", FALSE)
       ELSE IF CanSend(ws)
         THEN /\ jobs' = Resume(job, "run")
              /\ out' = <<Sent(ws, JSONstringify(AiStatus("thinking")))>>
              /\ last' = Step("runAiSummary", ws, NoText, "pending", FALSE)
         ELSE /\ jobs' = Finish(job)
              /\ out' = <<>>
              /\ last' = Step("runAiSummary", ws, NoText, "pending", TRUE)
  /\ UNCHANGED <<impl, chan, sessions, annotations, bucket, synced>>
  /\ UNCHANGED <<inbox, editorVars, shardVars>>

\* runAiSummary resumes after AI.run: with the response (ok), or in its
\* catch block because AI.run threw.
runAiSummaryRunW(job, ok) ==
  /\ impl = "worker"
  /\ job.pc = "run"
  /\ jobs' = Finish(job)
  /\ LET ws == job.ws IN
     IF CanSend(ws)
       THEN /\ out' = IF ok THEN <<Sent(ws, JSONstringify(AiResult(Summary)))>>
                      ELSE <<Sent(ws, JSONstringify(AiError("AI failed")))>>
            /\ last' = Step("runAiSummary", ws, IF ok THEN Submitted(Purpose) ELSE NoText,
                            IF ok THEN "summary" ELSE "failed", FALSE)
       ELSE /\ out' = <<>>
            /\ last' = Step("runAiSummary", ws, IF ok THEN Submitted(Purpose) ELSE NoText,
                            IF ok THEN "summary" ELSE "failed", TRUE)
  /\ UNCHANGED <<impl, chan, sessions, annotations, bucket, synced>>
  /\ UNCHANGED <<inbox, editorVars, shardVars>>

----------------------------------------------------------------------------
\* The environment: a peer goes away; the close event is not handled yet.
PeerCloses(ws) ==
  /\ chan[ws] = "open"
  /\ chan' = [chan EXCEPT ![ws] = "closing"]
  /\ UNCHANGED <<impl, sessions, annotations, bucket, jobs, out, last, synced>>
  /\ UNCHANGED <<inbox, editorVars, shardVars>>

\* Clients connect, leave and send annotations, deleted pages, cursors and
\* malformed messages.
Next ==
  \/ \E ws \in Sockets : handleWebSocket(ws)
  \/ \E ws \in Sockets, message \in ClientTexts : webSocketMessage(ws, message)
  \/ \E ws \in Sockets : webSocketClose(ws)
  \/ \E ws \in Sockets : handleWebSocketW(ws)
  \/ \E ws \in Sockets, message \in ClientTexts : webSocketMessageW(ws, message)
  \/ \E ws \in Sockets : webSocketCloseW(ws)
  \/ \E ws \in Sockets : PeerCloses(ws)

Spec == Init /\ [][Next]_vars

\* Clients connect, leave, ask for summaries and send annotations.
NextAi ==
  \/ \E ws \in AiSockets : handleWebSocket(ws)
  \/ \E ws \in AiSockets, message \in AiClientTexts : webSocketMessage(ws, message)
  \/ \E ws \in AiSockets : webSocketClose(ws)
  \/ \E job \in BagToSet(jobs) : runAiSummaryGet(job)
  \/ \E job \in BagToSet(jobs), ok \in BOOLEAN : runAiSummaryRun(job, ok)
  \/ \E ws \in AiSockets : handleWebSocketW(ws)
  \/ \E ws \in AiSockets, message \in AiClientTexts : webSocketMessageW(ws, message)
  \/ \E ws \in AiSockets : webSocketCloseW(ws)
  \/ \E job \in BagToSet(jobs) : runAiSummaryGetW(job)
  \/ \E job \in BagToSet(jobs), ok \in BOOLEAN : runAiSummaryRunW(job, ok)
  \/ \E ws \in AiSockets : PeerCloses(ws)

SpecAi == InitAi /\ [][NextAi]_vars

\* Clients connect, leave and send sync-annotations of every shape.
NextShapes ==
  \/ \E ws \in AiSockets : handleWebSocket(ws)
  \/ \E ws \in AiSockets, message \in ShapeTexts : webSocketMessage(ws, message)
  \/ \E ws \in AiSockets : webSocketClose(ws)
  \/ \E ws \in AiSockets : handleWebSocketW(ws)
  \/ \E ws \in AiSockets, message \in ShapeTexts : webSocketMessageW(ws, message)
  \/ \E ws \in AiSockets : webSocketCloseW(ws)
  \/ \E ws \in AiSockets : PeerCloses(ws)

SpecShapes == Init /\ [][NextShapes]_vars

\* One client asks for summaries of the document in the bucket, which has
\* no text, some text, or text up to and beyond the limit.
InitSummary == InitSession /\ bucket \in SummaryFiles /\ InitInbox /\ InitShards /\ InitEditor

NextSummary ==
  \/ handleWebSocket(1)
  \/ webSocketMessage(1, JSONstringify(AiSummarize))
  \/ webSocketClose(1)
  \/ \E job \in BagToSet(jobs) : runAiSummaryGet(job)
  \/ \E job \in BagToSet(jobs), ok \in BOOLEAN : runAiSummaryRun(job, ok)
  \/ handleWebSocketW(1)
  \/ webSocketMessageW(1, JSONstringify(AiSummarize))
  \/ webSocketCloseW(1)
  \/ \E job \in BagToSet(jobs) : runAiSummaryGetW(job)
  \/ \E job \in BagToSet(jobs), ok \in BOOLEAN : runAiSummaryRunW(job, ok)
  \/ PeerCloses(1)

SpecSummary == InitSummary /\ [][NextSummary]_vars

\* syncAnnotations in the editor: the client puts the message on its socket,
\* behind the messages that still wait there.
RECURSIVE InFlight(_)
InFlight(S) ==
  IF S = {} THEN 0
  ELSE LET s == CHOOSE x \in S : TRUE IN Len(inbox[s]) + InFlight(S \ {s})

syncAnnotations(ws, newAnnotations) ==
  /\ chan[ws] = "open"
  /\ InFlight(Sockets) < MaxInFlight
  /\ local' = [local EXCEPT ![ws] = newAnnotations]
  /\ inbox' = [inbox EXCEPT ![ws] = Append(@, JSONstringify(SyncAnnotations(newAnnotations)))]
  /\ UNCHANGED <<sessionVars, file, clientAnnotations, deletedPages, modifiedBytes,
                  previousBytes, aiStatus, pending, shardVars>>

\* Clients connect, leave and send annotation lists that wait on the socket
\* until webSocketMessage takes them.
NextOrder ==
  \/ \E ws \in Sockets : handleWebSocket(ws)
  \/ \E ws \in Sockets, l \in OrderAnnLists : syncAnnotations(ws, l)
  \/ \E ws \in Sockets, message \in OrderTexts : webSocketMessage(ws, message)
  \/ \E ws \in Sockets : webSocketClose(ws)
  \/ \E ws \in Sockets : handleWebSocketW(ws)
  \/ \E ws \in Sockets, message \in OrderTexts : webSocketMessageW(ws, message)
  \/ \E ws \in Sockets : webSocketCloseW(ws)
  \/ \E ws \in Sockets : PeerCloses(ws)

SpecOrder == Init /\ [][NextOrder]_vars

\* socket.onmessage of the editor at the client end of ws takes the oldest
\* of the messages of the last step that were sent to ws and are not taken
\* yet; a sync-annotations replaces the editor's list, an ai-status sets
\* aiStatus to the status it carries and an ai-result sets it to "idle".
onmessage(ws) ==
  /\ \E i \in 1..Len(out) :
       /\ out[i].to = ws
       /\ \A j \in 1..(i - 1) : out[j].to # ws
       /\ LET msg == JSONparse(out[i].msg) IN
          /\ local' = IF TypeOf(msg) = "sync-annotations"
                        THEN [local EXCEPT ![ws] = Field(msg, "annotations")]
                        ELSE local
          /\ aiStatus' = CASE TypeOf(msg) = "ai-status" ->
                                [aiStatus EXCEPT ![ws] = Field(msg, "status")]
                            [] TypeOf(msg) = "ai-result" ->
                                [aiStatus EXCEPT ![ws] = "idle"]
                            [] OTHER -> aiStatus
       /\ out' = SubSeq(out, 1, i - 1) \o SubSeq(out, i + 1, Len(out))
  /\ UNCHANGED <<impl, chan, sessions, annotations, bucket, jobs, last, synced>>
  /\ UNCHANGED <<inbox, file, clientAnnotations, deletedPages, modifiedBytes,
                  previousBytes, pending, shardVars>>

\* No message of the last step waits for a client that is there.
Received == \A i \in 1..Len(out) : chan[out[i].to] # "open"

\* Two editors connect, edit and leave.  What an editor sends waits on its
\* socket until webSocketMessage takes it; what the object sends is taken by
\* the editors before the object's next step.
NextConverge ==
  \/ \E ws \in AiSockets : onmessage(ws)
  \/ \E ws \in AiSockets, l \in OrderAnnLists : syncAnnotations(ws, l)
  \/ /\ Received
     /\ \/ \E ws \in AiSockets : handleWebSocket(ws)
        \/ \E ws \in AiSockets :
             inbox[ws] # <<>> /\ webSocketMessage(ws, Head(inbox[ws]))
        \/ \E ws \in AiSockets : webSocketClose(ws)
        \/ \E ws \in AiSockets : handleWebSocketW(ws)
        \/ \E ws \in AiSockets :
             inbox[ws] # <<>> /\ webSocketMessageW(ws, Head(inbox[ws]))
        \/ \E ws \in AiSockets : webSocketCloseW(ws)
        \/ \E ws \in AiSockets : PeerCloses(ws)

SpecConverge == Init /\ [][NextConverge]_vars

----------------------------------------------------------------------------
\* The HTTP handlers of PDFSession: upload, download, save-changes.  A
\* request carries a form, or a body that is no form; the step records in
\* last.text the request with the outcomes of PDF_BUCKET.put and of the D1
\* statement, or the body of the response; last.result is the status.

UploadFiles == {"f1", "f2", "f3"}
null == "null"
NotFormData == [text |-> "plain"]
Forms == {[file |-> f] : f \in UploadFiles} \cup {[note |-> "n"]}
Requests == Forms \cup {NotFormData}

\* request.formData() throws for a body that is no form; formData.get(name)
\* is null for a form without the entry.
IsForm(request) == request \in Forms
formDataGet(form, name) == IF name \in DOMAIN form THEN form[name] ELSE null

Called(request, putOk, dbOk) == [request |-> request, put |-> putOk, db |-> dbOk]
Body(object) == [body |-> object]

\* Variant: put keeps an object that is there.
PutIfAbsent(object, body) == IF object = NoObject THEN body ELSE object

\* PDF_BUCKET.put(pdfKey, body): the object under pdfKey afterwards.
Put(object, body) == body

\* What a handler leaves alone.
Responds(step) ==
  /\ last' = step
  /\ out' = <<>>
  /\ UNCHANGED <<impl, chan, sessions, annotations, jobs, synced>>
  /\ UNCHANGED <<inbox, editorVars, shardVars>>

\* src/unnamed/part_001
handleUpload(request, putOk, dbOk) ==
  /\ impl = "part_001"
  /\ IF ~IsForm(request)
       THEN /\ putOk /\ dbOk
            /\ UNCHANGED bucket
            /\ Responds(Step("handleUpload", NoSocket, Called(request, putOk, dbOk),
                             "exception", TRUE))
     ELSE IF formDataGet(request, "file") = null
       THEN /\ putOk /\ dbOk
            /\ UNCHANGED bucket
            /\ Responds(Step("handleUpload", NoSocket, Called(request, putOk, dbOk),
                             "400", FALSE))
     ELSE IF ~putOk
       THEN /\ dbOk
            /\ UNCHANGED bucket
            /\ Responds(Step("handleUpload", NoSocket, Called(request, putOk, dbOk),
                             "exception", TRUE))
     ELSE /\ bucket' = Put(bucket, formDataGet(request, "file"))
          /\ IF tryCatch(~dbOk)
               THEN Responds(Step("handleUpload", NoSocket,
                                  Called(request, putOk, dbOk), "exception", TRUE))
               ELSE Responds(Step("handleUpload", NoSocket,
                                  Called(request, putOk, dbOk), "200", FALSE))

handleDownload ==
  /\ impl = "part_001"
  /\ UNCHANGED bucket
  /\ IF bucket = NoObject
       THEN Responds(Step("handleDownload", NoSocket, NoText, "404", FALSE))
       ELSE Responds(Step("handleDownload", NoSocket, Body(bucket), "200", FALSE))

handleSaveChanges(request, putOk) ==
  /\ impl = "part_001"
  /\ IF ~IsForm(request)
       THEN /\ putOk
            /\ UNCHANGED bucket
            /\ Responds(Step("handleSaveChanges", NoSocket, Called(request, putOk, TRUE),
                             "exception", TRUE))
     ELSE IF formDataGet(request, "file") = null
       THEN /\ putOk
            /\ UNCHANGED bucket
            /\ Responds(Step("handleSaveChanges", NoSocket, Called(request, putOk, TRUE),
                             "400", FALSE))
     ELSE IF ~putOk
       THEN /\ UNCHANGED bucket
            /\ Responds(Step("handleSaveChanges", NoSocket, Called(request, putOk, TRUE),
                             "exception", TRUE))
     ELSE /\ bucket' = Put(bucket, formDataGet(request, "file"))
          /\ Responds(Step("handleSaveChanges", NoSocket, Called(request, putOk, TRUE),
                           "200", FALSE))

\* src/worker/pdf-session.ts
handleUploadW(request, putOk, dbOk) ==
  /\ impl = "worker"
  /\ IF ~IsForm(request)
       THEN /\ putOk /\ dbOk
            /\ UNCHANGED bucket
            /\ Responds(Step("handleUpload", NoSocket, Called(request, putOk, dbOk),
                             "exception", TRUE))
     ELSE IF formDataGet(request, "file") = null
       THEN /\ putOk /\ dbOk
            /\ UNCHANGED bucket
            /\ Responds(Step("handleUpload", NoSocket, Called(request, putOk, dbOk),
                             "400", FALSE))
     ELSE IF ~putOk
       THEN /\ dbOk
            /\ UNCHANGED bucket
            /\ Responds(Step("handleUpload", NoSocket, Called(request, putOk, dbOk),
                             "exception", TRUE))
     ELSE /\ bucket' = Put(bucket, formDataGet(request, "file"))
          /\ IF tryCatch(~dbOk)
               THEN Responds(Step("handleUpload", NoSocket,
                                  Called(request, putOk, dbOk), "exception", TRUE))
               ELSE Responds(Step("handleUpload", NoSocket,
                                  Called(request, putOk, dbOk), "200", FALSE))

handleDownloadW ==
  /\ impl = "worker"
  /\ UNCHANGED bucket
  /\ IF bucket = NoObject
       THEN Responds(Step("handleDownload", NoSocket, NoText, "404", FALSE))
       ELSE Responds(Step("handleDownload", NoSocket, Body(bucket), "200", FALSE))

\* No test of file: file.stream() of null throws a TypeError.
handleSaveChangesW(request, putOk) ==
  /\ impl = "worker"
  /\ IF ~IsForm(request)
       THEN /\ putOk
            /\ UNCHANGED bucket
            /\ Responds(Step("handleSaveChanges", NoSocket, Called(request, putOk, TRUE),
                             "exception", TRUE))
     ELSE IF formDataGet(request, "file") = null
       THEN /\ putOk
            /\ UNCHANGED bucket
            /\ Responds(Step("handleSaveChanges", NoSocket, Called(request, putOk, TRUE),
                             "exception", TRUE))
     ELSE IF ~putOk
       THEN /\ UNCHANGED bucket
            /\ Responds(Step("handleSaveChanges", NoSocket, Called(request, putOk, TRUE),
                             "exception", TRUE))
     ELSE /\ bucket' = Put(bucket, formDataGet(request, "file"))
          /\ Responds(Step("handleSaveChanges", NoSocket, Called(request, putOk, TRUE),
                           "200", FALSE))

NextStore ==
  \/ \E request \in Requests, putOk, dbOk \in BOOLEAN :
       \/ handleUpload(request, putOk, dbOk)
       \/ handleUploadW(request, putOk, dbOk)
  \/ handleDownload
  \/ handleDownloadW
  \/ \E request \in Requests, putOk \in BOOLEAN :
       \/ handleSaveChanges(request, putOk)
       \/ handleSaveChangesW(request, putOk)

SpecStore == Init /\ [][NextStore]_vars

----------------------------------------------------------------------------
\* src/unnamed/part_000, fetch: a request to /api/session goes to the
\* PDFSession of the id it names, or to the one of a new id.  The object is
\* made when its first request arrives; it works on its own fields and on
\* the key pdfKey of the bucket.  routed is the document the request was for.

idFromString(idParam) == idParam
\* newUniqueId: an id that no object was made for.
newUniqueId(id) == ~objects[id].made
Routes(idParam, id) ==
  IF idParam # null THEN id = idFromString(idParam) ELSE newUniqueId(id)
For(idParam, id) == IF idParam # null THEN idParam ELSE id

\* The object of this id, made by the constructor if it is not there.
Made(id) ==
  IF objects[id].made THEN objects[id]
  ELSE [made |-> TRUE, annotations |-> <<>>, sessions |-> <<>>]

\* The object that accepted the socket.
Accepted(id, ws) == ws \in SeqToSet(objects[id].sessions)

fetchWebSocket(idParam, ws) ==
  /\ \A d \in Docs : ~Accepted(d, ws)
  /\ \E id \in Docs :
       /\ Routes(idParam, id)
       /\ objects' = [objects EXCEPT ![id] = [Made(id) EXCEPT !.sessions = SetAdd(@, ws)]]
       /\ routed' = For(idParam, id)
  /\ UNCHANGED <<store, sessionVars, inbox, editorVars>>

fetchUpload(idParam, pdf) ==
  /\ \E id \in Docs :
       /\ Routes(idParam, id)
       /\ objects' = [objects EXCEPT ![id] = Made(id)]
       /\ store' = [store EXCEPT ![pdfKey(id)] = Put(@, pdf)]
       /\ routed' = For(idParam, id)
  /\ UNCHANGED <<sessionVars, inbox, editorVars>>

fetchSaveChanges(idParam, pdf) ==
  /\ \E id \in Docs :
       /\ Routes(idParam, id)
       /\ objects' = [objects EXCEPT ![id] = Made(id)]
       /\ store' = [store EXCEPT ![pdfKey(id)] = Put(@, pdf)]
       /\ routed' = For(idParam, id)
  /\ UNCHANGED <<sessionVars, inbox, editorVars>>

\* The events of a socket go to the object that accepted it.
socketMessage(ws, l) ==
  /\ \E id \in Docs :
       /\ Accepted(id, ws)
       /\ objects' = [objects EXCEPT ![id].annotations = l]
       /\ routed' = id
  /\ UNCHANGED <<store, sessionVars, inbox, editorVars>>

socketClose(ws) ==
  /\ \E id \in Docs :
       /\ Accepted(id, ws)
       /\ objects' = [objects EXCEPT ![id].sessions = SetDelete(@, ws)]
       /\ routed' = id
  /\ UNCHANGED <<store, sessionVars, inbox, editorVars>>

NextShards ==
  \/ \E idParam \in Docs \cup {null}, ws \in AiSockets : fetchWebSocket(idParam, ws)
  \/ \E idParam \in Docs \cup {null}, pdf \in UploadFiles : fetchUpload(idParam, pdf)
  \/ \E idParam \in Docs \cup {null}, pdf \in UploadFiles : fetchSaveChanges(idParam, pdf)
  \/ \E ws \in AiSockets, l \in OrderAnnLists : socketMessage(ws, l)
  \/ \E ws \in AiSockets : socketClose(ws)

\* The router and the key are those of both implementations.
InitDocuments == Init /\ impl = "part_001"

SpecShards == InitDocuments /\ [][NextShards]_vars

----------------------------------------------------------------------------
\* src/src/components/pdf-editor.tsx: modifyPdf, the PDF Mutation Engine.
\* A PDF is the sequence of its pages; a page has the index it had in the
\* file, its height, and the draw operations added to it, oldest first.

PageHeight(index) == IF index % 2 = 0 THEN 792 ELSE 612
Page(index) == [index |-> index, height |-> PageHeight(index), ops |-> <<>>]
PdfFiles == {[i \in 1..n |-> Page(i - 1)] : n \in 1..MaxPages}

\* The annotations the editor creates; id is the place in the list.  Their
\* pages: none (below the first), the first and the second, which a file
\* of one page does not have.
AnnTypes == {"text", "rect", "image", "path", "text-replace"}
AnnPages == {0, 1, 2}
Annotation(type, id, page) ==
  CASE type = "text" ->
         [id |-> id, type |-> type, page |-> page, x |-> 100, y |-> 50, text |-> "T"]
    [] type = "rect" ->
         [id |-> id, type |-> type, page |-> page, x |-> 75, y |-> 40,
          width |-> 50, height |-> 20]
    [] type = "image" ->
         [id |-> id, type |-> type, page |-> page, x |-> 100, y |-> 50,
          width |-> 100, height |-> 100, image |-> "data:image/png"]
    [] type = "path" ->
         [id |-> id, type |-> type, page |-> page, x |-> 0, y |-> 0, path |-> "M 1 1 L 2 2"]
    [] type = "text-replace" ->
         [id |-> id, type |-> type, page |-> page, x |-> 100, y |-> 50, text |-> "T",
          originalTextRect |-> [x |-> 100, y |-> 50, width |-> 40, height |-> 12]]

EditorAnnLists ==
  UNION {{[i \in 1..k |-> Annotation(tp[i][1], i, tp[i][2])] :
            tp \in [1..k -> AnnTypes \X AnnPages]} : k \in 0..MaxAnns}

\* deletePage appends the index of a page that is shown; a deleted page is
\* not shown, so no index occurs twice.  MaxPages is beyond every file.
DeletedLists ==
  UNION {{d \in [1..k -> 0..MaxPages] : \A i, j \in 1..k : d[i] = d[j] => i = j} :
           k \in 0..MaxPages}

Includes(list, v) == \E i \in 1..Len(list) : list[i] = v
\* ann.field in a condition: the field is there and its value is not the
\* empty string, 0 or undefined.
Falsy(field) ==
  CASE field \in {"width", "height"} -> 0
    [] field \in {"text", "image", "path"} -> ""
    [] OTHER -> NullValue
Has(ann, field) == field \in DOMAIN ann /\ ann[field] # Falsy(field)

\* Variant: the document of the call before is loaded again.
PDFDocumentLoadKept(f) ==
  IF modifiedBytes = NoBytes THEN [pages |-> f, threw |-> FALSE] ELSE modifiedBytes

\* PDFDocument.load; pdfDoc.save keeps the pages.
PDFDocumentLoad(f) == [pages |-> f, threw |-> FALSE]

\* Variant: the annotation's page is taken as a 0-based index.
PageIndexAsIs(ann) == ann.page

\* ann.page is 1-based; pages and deletedPageIndices are 0-based.
PageIndex(ann) == ann.page - 1

\* Variant: the viewer's y is handed to the drawing layer as it is.
NoFlip(height, y) == y

\* From the viewer's y (down from the top) to the PDF's y (up from the
\* bottom) on a page of this height.
FlipY(height, y) == height - y

\* Variant: a draw operation goes below the operations the page has.
DrawBelow(ops, new) == new \o ops

\* page.drawText, drawRectangle, drawImage, drawSvgPath: a draw operation
\* goes on top of the operations the page has.
Draw(ops, new) == ops \o new

\* The image data embeds (embedPng, embedJpg) or the embedding throws.
Embeds(image) == image = "data:image/png"

\* The loop body for ann throws past the page lookup.
Throws(ann) ==
  /\ ann.type = "image" /\ Has(ann, "image") /\ Has(ann, "width") /\ Has(ann, "height")
  /\ tryCatch(~Embeds(ann.image))

\* One pass of the loop body for ann on its page: the operations drawn.
Draws(ann, height) ==
  IF ann.type = "text-replace" /\ Has(ann, "originalTextRect") /\ Has(ann, "text")
    THEN << [op |-> "drawRectangle", ann |-> ann.id,
             x |-> ann.originalTextRect.x, y |-> ann.originalTextRect.y,
             width |-> ann.originalTextRect.width,
             height |-> ann.originalTextRect.height],
            [op |-> "drawText", ann |-> ann.id, x |-> ann.x, y |-> ann.y] >>
    ELSE
      (IF ann.type = "text" /\ Has(ann, "text")
         THEN << [op |-> "drawText", ann |-> ann.id,
                  x |-> ann.x, y |-> FlipY(height, ann.y)] >>
         ELSE <<>>)
      \o
      (IF ann.type = "rect" /\ Has(ann, "width") /\ Has(ann, "height")
         THEN << [op |-> "drawRectangle", ann |-> ann.id,
                  x |-> ann.x, y |-> FlipY(height, ann.y) - ann.height,
                  width |-> ann.width, height |-> ann.height] >>
         ELSE <<>>)
      \o
      (IF ann.type = "image" /\ Has(ann, "image") /\ Has(ann, "width")
            /\ Has(ann, "height") /\ Embeds(ann.image)
         THEN << [op |-> "drawImage", ann |-> ann.id,
                  x |-> ann.x, y |-> FlipY(height, ann.y) - ann.height,
                  width |-> ann.width, height |-> ann.height] >>
         ELSE <<>>)
      \o
      (IF ann.type = "path" /\ Has(ann, "path")
         THEN << [op |-> "drawSvgPath", ann |-> ann.id,
                  x |-> ann.x, y |-> FlipY(height, ann.y)] >>
         ELSE <<>>)

\* The loop over the annotations.  An annotation beyond the last page or on
\* a deleted page is skipped; pages[ann.page - 1] is undefined for a page
\* below 1, and getSize of undefined throws.
RECURSIVE drawLoop(_, _, _)
drawLoop(rest, deletedPageIndices, pdfDoc) ==
  IF rest = <<>> THEN pdfDoc
  ELSE LET ann == Head(rest) IN
       IF ann.page > Len(pdfDoc.pages) \/ Includes(deletedPageIndices, PageIndex(ann))
         THEN drawLoop(Tail(rest), deletedPageIndices, pdfDoc)
       ELSE IF PageIndex(ann) + 1 \notin 1..Len(pdfDoc.pages)
         THEN [pdfDoc EXCEPT !.threw = TRUE]
       ELSE IF Throws(ann)
         THEN [pdfDoc EXCEPT !.threw = TRUE]
       ELSE LET page == pdfDoc.pages[PageIndex(ann) + 1] IN
            drawLoop(Tail(rest), deletedPageIndices,
                     [pdfDoc EXCEPT !.pages[PageIndex(ann) + 1].ops =
                                      Draw(@, Draws(ann, page.height))])

\* Variant: the deletions are made in the order of the list.
Unsorted(list) == list

\* [...deletedPageIndices].sort((a, b) => b - a): the indices, largest first.
RECURSIVE sortedDeletions(_)
sortedDeletions(list) ==
  IF list = <<>> THEN <<>>
  ELSE LET max == CHOOSE i \in 1..Len(list) :
                    /\ \A j \in 1..Len(list) : list[j] <= list[i]
                    /\ \A j \in 1..(i - 1) : list[j] < list[i]
       IN <<list[max]>> \o
          sortedDeletions(SubSeq(list, 1, max - 1) \o SubSeq(list, max + 1, Len(list)))

\* pdfDoc.removePage(idx), for idx within the pages.
removePage(pages, idx) == SubSeq(pages, 1, idx) \o SubSeq(pages, idx + 2, Len(pages))

\* The loop over the sorted deletions: an index beyond the pages left is
\* passed over.
RECURSIVE removeLoop(_, _)
removeLoop(rest, pages) ==
  IF rest = <<>> THEN pages
  ELSE LET idx == Head(rest) IN
       IF idx < Len(pages)
         THEN removeLoop(Tail(rest), removePage(pages, idx))
         ELSE removeLoop(Tail(rest), pages)

modifyPdf(f, anns, deletedPageIndices) ==
  LET drawn == drawLoop(anns, deletedPageIndices, PDFDocumentLoad(f)) IN
  IF drawn.threw THEN drawn
  ELSE [drawn EXCEPT !.pages = removeLoop(sortedDeletions(deletedPageIndices), @)]

\* downloadPdf: with a file loaded, the editor calls modifyPdf on its file,
\* its annotations and its deleted pages.
downloadPdf ==
  /\ file # NoFile
  /\ modifiedBytes = NoBytes
  /\ modifiedBytes' = modifyPdf(file, clientAnnotations, deletedPages)
  /\ UNCHANGED <<sessionVars, inbox, file, clientAnnotations, deletedPages, previousBytes,
                  local, aiStatus, pending, shardVars>>

\* downloadPdf once more, on the file, the annotations and the deleted pages
\* of the first time.
downloadPdfAgain ==
  /\ file # NoFile
  /\ modifiedBytes # NoBytes
  /\ previousBytes = NoBytes
  /\ previousBytes' = modifiedBytes
  /\ modifiedBytes' = modifyPdf(file, clientAnnotations, deletedPages)
  /\ UNCHANGED <<sessionVars, inbox, file, clientAnnotations, deletedPages, local,
                  aiStatus, pending, shardVars>>

\* The editor has a file, annotations and deleted pages: made here, or
\* received with sync-annotations.
InitEngine ==
  /\ InitSession /\ impl = "part_001" /\ bucket = NoObject /\ InitInbox /\ InitShards
  /\ file \in PdfFiles
  /\ clientAnnotations \in EditorAnnLists
  /\ deletedPages \in DeletedLists
  /\ modifiedBytes = NoBytes
  /\ previousBytes = NoBytes
  /\ local = [s \in Sockets |-> <<>>]
  /\ InitStatus

NextEngine == downloadPdf

SpecEngine == InitEngine /\ [][NextEngine]_vars

\* Behaviours with the annotations whose drawing the engine gives up: a
\* text-replace whose replacement was emptied in the edit field, and an
\* image that is neither PNG nor JPEG.  downloadPdf runs twice.
MaxVariantAnns == 3   \* annotations in the editor's list, in these behaviours

VariantKinds == {"text", "image", "gif", "text-replace", "cleared"}
VariantPages == {1, 2}
Variant(kind, id, page) ==
  CASE kind = "gif" ->
         [Annotation("image", id, page) EXCEPT !.image = "data:image/gif"]
    [] kind = "cleared" ->
         [Annotation("text-replace", id, page) EXCEPT !.text = ""]
    [] OTHER -> Annotation(kind, id, page)

\* The lists of at most max annotations.
VariantAnnLists(max) ==
  UNION {{[i \in 1..k |-> Variant(kp[i][1], i, kp[i][2])] :
            kp \in [1..k -> VariantKinds \X VariantPages]} : k \in 0..max}

InitVariants ==
  /\ InitSession /\ impl = "part_001" /\ bucket = NoObject /\ InitInbox /\ InitShards
  /\ file \in PdfFiles
  /\ clientAnnotations \in VariantAnnLists(MaxVariantAnns)
  /\ deletedPages \in {d \in DeletedLists : Len(d) <= 1}
  /\ modifiedBytes = NoBytes
  /\ previousBytes = NoBytes
  /\ local = [s \in Sockets |-> <<>>]
  /\ InitStatus

NextVariants == downloadPdf \/ downloadPdfAgain

SpecVariants == InitVariants /\ [][NextVariants]_vars

----------------------------------------------------------------------------
\* What the claims speak of.

\* The step is webSocketMessage(ws, text), in either implementation.
Processes(ws, text) == webSocketMessage(ws, text) \/ webSocketMessageW(ws, text)

\* The connected clients: registered, and the channel is open.
Connected == {s \in SeqToSet(sessions) : chan[s] = "open"}

\* How often the messages o carry text to s.
Deliveries(o, s, text) == Cardinality({i \in 1..Len(o) : o[i] = Sent(s, text)})

SyncText(l) == JSONstringify(SyncAnnotations(l))
DeletedText(d) == JSONstringify(SyncDeletedPages(d))

\* What C1 asks of a step.
C1_Step ==
  \A a, b \in Sockets, la, lb \in AnnLists :
   (/\ a # b
    /\ la # lb
    /\ last.op = "webSocketMessage" /\ last.ws = a /\ last.text = SyncText(la)
    /\ Processes(b, SyncText(lb)))
   => /\ annotations' = lb
      /\ \A s \in Connected \ {b} : Deliveries(out', s, SyncText(lb)) = 1

\* C1: when sync-annotations of client a with list la has been processed and
\* then sync-annotations of another client b with another list lb is, the
\* authoritative list is lb, and every connected client other than b is sent
\* b's message, unchanged, once.
C1_LastWriteWins == [][C1_Step]_vars

\* C2: a client that connects is registered, and the one message the connect
\* sends it is sync-annotations with the list of the last sync-annotations
\* processed, the empty list when none has been.
C2_ConnectSendsAnnotations ==
  last.op = "handleWebSocket" =>
    /\ last.ws \in SeqToSet(sessions)
    /\ out = <<Sent(last.ws, SyncText(synced))>>

\* A client has joined after a non-empty list was synced, and got that list.
C2_LateJoiner ==
  /\ last.op = "handleWebSocket"
  /\ synced # <<>>
  /\ Len(sessions) > 1
  /\ out = <<Sent(last.ws, SyncText(synced))>>

\* C3: a client that connects is also sent the current deletedPages.
C3_ConnectSendsDeletedPages ==
  last.op = "handleWebSocket" =>
    \E i \in 1..Len(out) :
      /\ out[i].to = last.ws
      /\ "deletedPages" \in DOMAIN JSONparse(out[i].msg)

\* What C4 asks of a step.
C4_Step ==
  \A ws \in Sockets, d \in PageLists :
   Processes(ws, DeletedText(d))
   => /\ annotations' = annotations
      /\ \A s \in Connected \ {ws} : Deliveries(out', s, DeletedText(d)) = 1

\* C4: a sync-deleted-pages message of a client is broadcast to every other
\* connected client, and leaves the annotation list as it is.
C4_DeletedPagesBroadcast == [][C4_Step]_vars

BroadcastTexts == {SyncText(l) : l \in AnnLists} \cup {JSONstringify(CursorMove)}
MalformedTexts == {NotJson, JSONstringify(UnknownType)}

\* The clients registered whose channel is not open: a send to one throws.
Gone == {s \in SeqToSet(sessions) : chan[s] # "open"}

\* What C5 asks of a step.
C5_Step ==
  \A ws \in Sockets, text \in BroadcastTexts :
   Processes(ws, text)
   => /\ \A i \in 1..Len(out') : out'[i].to # ws /\ out'[i].msg = text
      /\ \A s \in Connected \ {ws} : Deliveries(out', s, text) = 1

\* C5: a sync-annotations or cursor-move message is never sent back to the
\* client it came from, and is sent, unchanged, once to every other client
\* that is registered, with an open channel, when the message is processed.
C5_EchoSuppression == [][C5_Step]_vars

\* What C6 asks of a step.
C6_Step ==
  \A ws \in Sockets, text \in BroadcastTexts :
   (Processes(ws, text) /\ Gone \ {ws} # {})
   => /\ ~last'.threw
      /\ \A f \in Gone \ {ws} : f \notin SeqToSet(sessions')
      /\ \A s \in Connected \ {ws} : Deliveries(out', s, text) = 1

\* C6: when a send of a broadcast fails, the recipient it failed for is
\* removed from the registry, every remaining recipient is still sent the
\* message, and no exception leaves the broadcast.
C6_BroadcastToleratesFailure == [][C6_Step]_vars

\* What C7 asks of a step.
C7_Step ==
  \A ws \in Sockets, text \in MalformedTexts :
   Processes(ws, text)
   => /\ ~last'.threw
      /\ out' = <<>>
      /\ annotations' = annotations
      /\ sessions' = sessions

\* C7: a message that is not JSON, or whose type is unknown, is discarded: no
\* exception leaves the handler, nothing is sent, and the annotation list
\* and the registry stay as they are.
C7_MalformedDiscarded == [][C7_Step]_vars

AiResultTexts(ok) ==
  IF ok THEN {JSONstringify(AiResult(Summary))}
  ELSE {JSONstringify(AiResult(NoPdfText)), JSONstringify(AiResult(FailedText))}

\* How many ai-result messages o carries to s.
Results(o, s) ==
  Cardinality({i \in 1..Len(o) : o[i].to = s /\ TypeOf(JSONparse(o[i].msg)) = "ai-result"})

\* The step completes the summarization job: with the summary (ok), or with
\* a failure of extraction or inference.
Completes(job, ok) == runAiSummaryRun(job, ok) \/ runAiSummaryRunW(job, ok)

\* The step completes the job for want of a PDF.
CompletesWithoutPdf(job) ==
  bucket = NoObject /\ (runAiSummaryGet(job) \/ runAiSummaryGetW(job))

\* Whom a result of job is due: the connected clients, and the requestor if
\* its channel is open.
Audience(job) == Connected \cup {ws \in {job.ws} : chan[ws] = "open"}

\* C8: while a summarization job is in flight, a sync-annotations message of
\* any client whose socket is accepted, the requestor included, can be
\* processed at once: it replaces the annotation list and is broadcast (to
\* every other connected client, when no send fails) with the job still in
\* flight.
C8_MessagesNotStalled ==
  \A job \in BagToSet(jobs), ws \in AiSockets, l \in AiAnnLists :
    chan[ws] \in {"open", "closing"} =>
      ENABLED (/\ Processes(ws, SyncText(l))
               /\ annotations' = l
               /\ jobs' = jobs
               /\ Gone \ {ws} = {} =>
                    \A s \in Connected \ {ws} : Deliveries(out', s, SyncText(l)) = 1)

\* The requestor's own sync-annotations was applied and reached another
\* client while its summarization job is still in flight.
C8_SyncDuringJob ==
  /\ last.op = "webSocketMessage"
  /\ last.text \in {SyncText(l) : l \in AiAnnLists}
  /\ \E job \in BagToSet(jobs) : job.ws = last.ws
  /\ annotations # <<>>
  /\ JSONparse(last.text).annotations = annotations
  /\ \E s \in Sockets \ {last.ws} : Deliveries(out, s, last.text) = 1

\* What C9 asks of a step.
C9_Step ==
  \A job \in BagToSet(jobs) :
    /\ \A ok \in BOOLEAN :
         Completes(job, ok) =>
           \E m \in AiResultTexts(ok) : \A s \in Audience(job) : Deliveries(out', s, m) >= 1
    /\ CompletesWithoutPdf(job) =>
         \E m \in AiResultTexts(FALSE) : \A s \in Audience(job) : Deliveries(out', s, m) >= 1

\* C9: when a summarization job completes, its ai-result (the summary on
\* success, the failure text on failure) is sent to the requestor and to
\* every other connected client.
C9_ResultToAll == [][C9_Step]_vars

\* What C10 asks of a step.
C10_Step ==
  \A job \in BagToSet(jobs), ok \in BOOLEAN :
    Completes(job, ok) => \A s \in Audience(job) : Results(out', s) = 1

\* C10: the completion of a request sends every client connected then, the
\* requestor included, that request's ai-result exactly once.
C10_ResultExactlyOnce == [][C10_Step]_vars

ErrorTexts == {NoPdfText, FailedText}

\* The messages o carries to s that are an ai-result with an error string.
ErrorResults(o, s) ==
  {i \in 1..Len(o) : /\ o[i].to = s
                     /\ TypeOf(JSONparse(o[i].msg)) = "ai-result"
                     /\ JSONparse(o[i].msg).text \in ErrorTexts}

\* C11: when text extraction or inference has failed for a job whose
\* requester is connected, the requester has been sent an ai-result with an
\* error string, no exception has left the job, the requester's channel is
\* open and registered, and the Coordinator still takes the requester's
\* messages.
C11_FailureIsResult ==
  (last.op = "runAiSummary" /\ last.result = "failed" /\ chan[last.ws] = "open") =>
    /\ ~last.threw
    /\ ErrorResults(out, last.ws) # {}
    /\ last.ws \in SeqToSet(sessions)
    /\ \A l \in AiAnnLists : ENABLED Processes(last.ws, SyncText(l))

\* The step resumes the summarization job: after PDF_BUCKET.get, or after
\* extraction and inference.
Resumes(job) ==
  \/ runAiSummaryGet(job) \/ runAiSummaryGetW(job)
  \/ \E ok \in BOOLEAN : Completes(job, ok)

\* What C12 asks of a step.
C12_Step ==
  \A job \in BagToSet(jobs) :
    (chan[job.ws] # "open" /\ Resumes(job)) =>
      /\ ~last'.threw
      /\ \A i \in 1..Len(out') : out'[i].to # job.ws
      /\ Completes(job, TRUE) =>
           \A s \in Connected : Deliveries(out', s, JSONstringify(AiResult(Summary))) >= 1

\* C12: when the requester of a summarization job has disconnected before
\* the job resumes, the job's sends raise no exception that nobody handles,
\* nothing is sent to the requester, and on success the clients still
\* connected are sent the result.
C12_DisconnectedRequester == [][C12_Step]_vars

\* The step is webSocketClose(ws), in either implementation.
Closes(ws) == webSocketClose(ws) \/ webSocketCloseW(ws)

\* What C13 asks of a step.
C13_Step ==
  \A ws \in Sockets :
    Closes(ws) =>
      /\ ~last'.threw
      /\ ws \notin SeqToSet(sessions')
      /\ SeqToSet(sessions') = SeqToSet(sessions) \ {ws}
      /\ annotations' = annotations
      /\ ws \notin SeqToSet(sessions) => sessions' = sessions

\* C13: webSocketClose removes the client from the registry and nobody else;
\* for a client that was removed before, it raises no error and leaves the
\* registry and the annotation list as they are.
C13_CloseIdempotent == [][C13_Step]_vars

\* webSocketClose has run for a client that a failed send had removed
\* before, while another client is registered.
C13_ClosedAfterRemoval ==
  /\ last.op = "webSocketClose"
  /\ last.result = "false"
  /\ ~last.threw
  /\ sessions # <<>>
  /\ last.ws \notin SeqToSet(sessions)


\* What C14 asks of a step.
C14_Step ==
  \A c \in Sockets, text \in OrderTexts :
    (inbox[c] # <<>> /\ Processes(c, text)) =>
      /\ text = Head(inbox[c])
      /\ annotations' = JSONparse(text).annotations
      /\ inbox'[c] = Tail(inbox[c])
      /\ \A s \in Connected \ {c} :
           /\ Deliveries(out', s, text) = 1
           /\ \A i \in 2..Len(inbox[c]) :
                inbox[c][i] # text => Deliveries(out', s, inbox[c][i]) = 0

\* C14: of the messages a client has sent, the Coordinator processes the
\* oldest first: when L1 and then L2 wait on a client's socket, the step that
\* processes a message of that client applies L1 and sends L1, not L2, to
\* every other connected client, and leaves L2 waiting; L2 is applied and
\* sent the same way by the step after it.
C14_ClientOrder == [][C14_Step]_vars


\* modifyPdf has returned a document.
Saved == modifiedBytes # NoBytes /\ ~modifiedBytes.threw

\* The places of the draw operations in the document modifyPdf returned,
\* and those that annotation number i produced.
SavedOps ==
  UNION {{<<p, k>> : k \in 1..Len(modifiedBytes.pages[p].ops)} :
           p \in 1..Len(modifiedBytes.pages)}
SavedOp(pk) == modifiedBytes.pages[pk[1]].ops[pk[2]]
OpsOf(i) == {pk \in SavedOps : SavedOp(pk).ann = i}

\* Which pages of the file these are.
Indices(pages) == [i \in 1..Len(pages) |-> pages[i].index]

\* The annotation's page is in the deleted-page set.
OnDeletedPage(ann) == Includes(deletedPages, ann.page - 1)
\* The annotation's page exists in the file.
OnExistingPage(ann) == ann.page \in 1..Len(file)

C16_DeletedPageNotDrawn ==
  Saved =>
    \A i \in 1..Len(clientAnnotations) :
      OnDeletedPage(clientAnnotations[i]) => OpsOf(i) = {}

\* The first annotation is on a deleted page and left no trace, the second
\* is drawn on a page that is kept; the deletions were not in descending
\* order.
C16_DrawnOnlyOnKeptPage ==
  /\ Saved
  /\ Len(clientAnnotations) = 2
  /\ OnDeletedPage(clientAnnotations[1]) /\ OnExistingPage(clientAnnotations[1])
  /\ OpsOf(1) = {}
  /\ OpsOf(2) # {}
  /\ Len(deletedPages) = 2
  /\ deletedPages[1] < deletedPages[2]

\* C17: modifyPdf completes without error whatever the pages of the
\* annotations; an annotation whose page is below 1 or beyond the page count
\* draws nothing, and every annotation on an existing page that is not
\* deleted is drawn.
C17_InvalidPageDropped ==
  modifiedBytes # NoBytes =>
    /\ ~modifiedBytes.threw
    /\ \A i \in 1..Len(clientAnnotations) :
         LET ann == clientAnnotations[i] IN
         /\ ~OnExistingPage(ann) => OpsOf(i) = {}
         /\ (OnExistingPage(ann) /\ ~OnDeletedPage(ann)) => OpsOf(i) # {}

\* C18: on every page of the document modifyPdf returns, the draw
\* operations are in the order of the annotation list, whatever the types:
\* an operation of a later annotation is on top of those of an earlier one.
C18_DrawOrder ==
  Saved =>
    \A a, b \in SavedOps :
      (a[1] = b[1] /\ a[2] < b[2]) => SavedOp(a).ann <= SavedOp(b).ann

\* A rectangle and then a text were put on the same page: the text is drawn
\* second, on top of the rectangle.
C18_TextOverRect ==
  /\ Saved
  /\ Len(clientAnnotations) = 2
  /\ clientAnnotations[1].type = "rect" /\ clientAnnotations[2].type = "text"
  /\ \E pg \in 1..Len(modifiedBytes.pages) :
       /\ Len(modifiedBytes.pages[pg].ops) = 2
       /\ modifiedBytes.pages[pg].ops[1].op = "drawRectangle"
       /\ modifiedBytes.pages[pg].ops[2].op = "drawText"

\* C19: a draw operation is on the page of its annotation; with H the height
\* of that page, a Text is drawn at (x, H - y) and a Rect and an Image with
\* the bottom-left corner at (x, H - y - height).
C19_Coordinates ==
  Saved =>
    \A pk \in SavedOps :
      LET op == SavedOp(pk)
          ann == clientAnnotations[op.ann]
          H == modifiedBytes.pages[pk[1]].height
      IN /\ modifiedBytes.pages[pk[1]].index = ann.page - 1
         /\ ann.type = "text" => op.x = ann.x /\ op.y = H - ann.y
         /\ ann.type \in {"rect", "image"} =>
              op.x = ann.x /\ op.y = H - ann.y - ann.height

\* A Text at (100, 50) is drawn at (100, 742) on a page of height 792, and an
\* Image is drawn on a page of another height.
C19_TextAt742 ==
  /\ Saved
  /\ \E pk \in SavedOps :
       /\ SavedOp(pk).op = "drawText"
       /\ clientAnnotations[SavedOp(pk).ann].type = "text"
       /\ clientAnnotations[SavedOp(pk).ann].x = 100
       /\ clientAnnotations[SavedOp(pk).ann].y = 50
       /\ modifiedBytes.pages[pk[1]].height = 792
       /\ SavedOp(pk).x = 100 /\ SavedOp(pk).y = 742
  /\ \E pk \in SavedOps :
       /\ SavedOp(pk).op = "drawImage"
       /\ modifiedBytes.pages[pk[1]].height # 792

\* C20: every draw operation has its y converted with the height H of its
\* page, whatever the variant: a text, a TextReplace's text included, is at
\* H - y, a path at H - y, and a rectangle, an image or a TextReplace's mask
\* has its bottom-left corner at H - y - height.
C20_AllVariantsFlipped ==
  Saved =>
    \A pk \in SavedOps :
      LET op == SavedOp(pk)
          ann == clientAnnotations[op.ann]
          H == modifiedBytes.pages[pk[1]].height
      IN CASE ann.type = "text-replace" /\ op.op = "drawText" -> op.y = H - ann.y
           [] ann.type = "text-replace" /\ op.op = "drawRectangle" ->
                op.y = H - ann.originalTextRect.y - ann.originalTextRect.height
           [] ann.type \in {"text", "path"} -> op.y = H - ann.y
           [] ann.type \in {"rect", "image"} -> op.y = H - ann.y - ann.height

\* C21: for a text-replace annotation on a page that is kept, the document
\* modifyPdf returns has exactly two draw operations of the annotation, one
\* right after the other on its page: first the rectangle at
\* originalTextRect, which masks the original text, then the replacement
\* text.
C21_MaskThenText ==
  Saved =>
    \A i \in 1..Len(clientAnnotations) :
      LET ann == clientAnnotations[i] IN
      (ann.type = "text-replace" /\ OnExistingPage(ann) /\ ~OnDeletedPage(ann)) =>
        \E pk \in OpsOf(i) :
          /\ OpsOf(i) = {pk, <<pk[1], pk[2] + 1>>}
          /\ SavedOp(pk).op = "drawRectangle"
          /\ SavedOp(pk).x = ann.originalTextRect.x
          /\ SavedOp(pk).y = ann.originalTextRect.y
          /\ SavedOp(pk).width = ann.originalTextRect.width
          /\ SavedOp(pk).height = ann.originalTextRect.height
          /\ SavedOp(<<pk[1], pk[2] + 1>>).op = "drawText"

\* The embedding of the annotation's image throws.
FailsToEmbed(ann) == ann.type = "image" /\ ~Embeds(ann.image)
\* A draw operation without the annotation it came from, and a document as
\* its pages and what is drawn on each.
Unnamed(op) == [f \in DOMAIN op \ {"ann"} |-> op[f]]
Drawing(doc) ==
  [p \in 1..Len(doc.pages) |->
     [index |-> doc.pages[p].index,
      ops |-> [k \in 1..Len(doc.pages[p].ops) |-> Unnamed(doc.pages[p].ops[k])]]]

\* C22: when the list holds an image whose embedding fails, modifyPdf still
\* returns a document; nothing is drawn for that image, every other
\* annotation is drawn as it is drawn when the image is left out of the
\* list, and the pages of the deleted-page list are removed.
C22_EmbedFailureSkipped ==
  (/\ modifiedBytes # NoBytes
   /\ \E i \in 1..Len(clientAnnotations) : FailsToEmbed(clientAnnotations[i])) =>
    /\ ~modifiedBytes.threw
    /\ \A i \in 1..Len(clientAnnotations) :
         FailsToEmbed(clientAnnotations[i]) => OpsOf(i) = {}
    /\ Drawing(modifiedBytes) =
         Drawing(modifyPdf(file,
                           SelectSeq(clientAnnotations, LAMBDA a : ~FailsToEmbed(a)),
                           deletedPages))
    /\ Indices(modifiedBytes.pages) =
         SelectSeq(Indices(file), LAMBDA ix : ~Includes(deletedPages, ix))

\* A text, an image that fails to embed and a text again, all on the first
\* page, and the second page deleted: both texts are drawn, the page is gone.
C22_DrawnAroundFailure ==
  /\ Saved
  /\ Len(clientAnnotations) = 3
  /\ clientAnnotations[1].type = "text" /\ clientAnnotations[1].page = 1
  /\ FailsToEmbed(clientAnnotations[2]) /\ clientAnnotations[2].page = 1
  /\ clientAnnotations[3].type = "text" /\ clientAnnotations[3].page = 1
  /\ Len(file) = 2 /\ deletedPages = <<1>>
  /\ Len(modifiedBytes.pages) = 1
  /\ Len(modifiedBytes.pages[1].ops) = 2
  /\ modifiedBytes.pages[1].ops[1].ann = 1
  /\ modifiedBytes.pages[1].ops[2].ann = 3

Writes ==
  /\ last'.op \in {"handleUpload", "handleSaveChanges"}
  /\ IsForm(last'.text.request)
  /\ formDataGet(last'.text.request, "file") # null
  /\ last'.text.put
\* A step of upload or save-changes whose request is a form without a file.
WithoutFile ==
  /\ last'.op \in {"handleUpload", "handleSaveChanges"}
  /\ IsForm(last'.text.request)
  /\ formDataGet(last'.text.request, "file") = null

\* C23: the object under pdfKey is the file of the most recent upload or
\* save-changes whose put was made, and is absent before the first one: a
\* step that puts a file leaves exactly that file, every other step leaves
\* the object as it is; download answers with the object, or with 404 when
\* there is none.
C23_Step ==
  /\ IF Writes
       THEN bucket' = formDataGet(last'.text.request, "file")
       ELSE bucket' = bucket
  /\ last'.op = "handleDownload" =>
       IF bucket = NoObject
         THEN last'.result = "404"
         ELSE last'.result = "200" /\ last'.text = Body(bucket)
C23_DownloadLatest == [][C23_Step]_vars

\* download has answered with f2 while the object is f2: f2 was put by the
\* last write, and the upload of f1 before it is overwritten.
C23_DownloadsSaved ==
  /\ last.op = "handleDownload"
  /\ last.result = "200"
  /\ last.text = Body("f2")
  /\ bucket = "f2"

\* C24: upload and save-changes answer a form without a file with status
\* 400, throw nothing, and leave the object under pdfKey as it is.
C24_Step ==
  WithoutFile =>
    /\ last'.result = "400"
    /\ ~last'.threw
    /\ bucket' = bucket
C24_NoFileRejected == [][C24_Step]_vars

\* C25: an upload whose put succeeds answers 200 with the id and leaves the
\* file under pdfKey, whether the D1 statement succeeds or throws.
C25_Step ==
  (last'.op = "handleUpload" /\ Writes) =>
    /\ last'.result = "200"
    /\ ~last'.threw
    /\ bucket' = formDataGet(last'.text.request, "file")
C25_UploadDespiteMetadata == [][C25_Step]_vars

\* An upload has answered 200 though its D1 statement threw; the file is
\* under pdfKey.
C25_MetadataFailed ==
  /\ last.op = "handleUpload"
  /\ ~last.text.db
  /\ last.result = "200"
  /\ bucket = last.text.request.file

\* AI.run has returned: the step recorded the content it was given.
SubmittedContent == last.text.content
Summarized == last.op = "runAiSummary" /\ last.result = "summary"

\* C27: the content handed to AI.run is never longer than 12000 characters,
\* and where the text of the document is extracted it is the first
\* min(n, 12000) characters of the n characters extracted.
C27_Truncated ==
  Summarized =>
    /\ Length(SubmittedContent) <= 12000
    /\ impl = "part_001" =>
         /\ SubmittedContent.of = bucket
         /\ SubmittedContent.from = 0
         /\ SubmittedContent.to = Min(TextLength(bucket), 12000)

\* A document of 12001 characters was summarized from its first 12000.
C27_CutAtLimit ==
  /\ Summarized
  /\ impl = "part_001"
  /\ TextLength(bucket) = 12001
  /\ Length(SubmittedContent) = 12000

\* A list of annotations.
IsList(v) == \A i \in 1..Len(v) : v[i] \in {"a1", "a2"}

\* C30: PDFSession.annotations is a list in every state, and the message
\* sent to a client that connects has an annotations field with a list.
C30_AnnotationsIsList ==
  /\ IsList(annotations)
  /\ last.op = "handleWebSocket" =>
       \A i \in 1..Len(out) :
         /\ "annotations" \in DOMAIN JSONparse(out[i].msg)
         /\ IsList(JSONparse(out[i].msg).annotations)

\* C29: when no message waits on a socket and every message the object
\* sent has been taken by its editor, the list of every connected editor is
\* the list of the object.
C29_Converged ==
  ((\A s \in Sockets : inbox[s] = <<>>) /\ Received) =>
    \A s \in Sockets : chan[s] = "open" => local[s] = annotations

\* C26: a step for one document leaves the object of every other document
\* (its annotations, its sessions) and what is put under the other
\* document's key as they are.
C26_Step ==
  \A d \in Docs :
    d # routed' =>
      /\ objects'[d] = objects[d]
      /\ store'[pdfKey(d)] = store[pdfKey(d)]
C26_DocumentsIndependent == [][C26_Step]_vars

\* Both documents have a client, a list and a PDF, each its own.
C26_TwoDocuments ==
  /\ objects["A"].sessions = <<1>> /\ objects["B"].sessions = <<2>>
  /\ objects["A"].annotations = <<"a1">> /\ objects["B"].annotations = <<"a1", "a2">>
  /\ store[pdfKey("A")] = "f1" /\ store[pdfKey("B")] = "f2"

----------------------------------------------------------------------------
\* The editors ask for summaries.  triggerAi in the editor at the client end
\* of ws: with a socket, it sets aiStatus and puts ai-summarize on the
\* socket, behind the messages that still wait there.
triggerAi(ws) ==
  /\ chan[ws] = "open"
  /\ InFlight(Sockets) < MaxInFlight
  /\ aiStatus' = [aiStatus EXCEPT ![ws] = "thinking"]
  /\ inbox' = [inbox EXCEPT ![ws] = Append(@, JSONstringify(AiSummarize))]
  /\ UNCHANGED <<sessionVars, file, clientAnnotations, deletedPages, modifiedBytes,
                  previousBytes, local, pending, shardVars>>

\* The runtime hands the object the oldest message that waits on ws.
Takes(ws) ==
  /\ inbox[ws] # <<>>
  /\ webSocketMessage(ws, Head(inbox[ws])) \/ webSocketMessageW(ws, Head(inbox[ws]))

\* A collaborator's call returns and the invocation of runAiSummary that
\* awaited it goes on.
Returns(job) ==
  /\ BagIn(job, jobs)
  /\ \/ runAiSummaryGet(job)
     \/ \E ok \in BOOLEAN : runAiSummaryRun(job, ok)
     \/ runAiSummaryGetW(job)
     \/ \E ok \in BOOLEAN : runAiSummaryRunW(job, ok)

\* Two editors connect, ask for summaries and leave.  What an editor sends
\* waits on its socket until webSocketMessage takes it; what the object sends
\* is taken by the editors before the object's next step.
NextStatus ==
  \/ \E ws \in AiSockets : onmessage(ws)
  \/ \E ws \in AiSockets : triggerAi(ws)
  \/ /\ Received
     /\ \/ \E ws \in AiSockets : handleWebSocket(ws)
        \/ \E ws \in AiSockets : handleWebSocketW(ws)
        \/ \E ws \in AiSockets : Takes(ws)
        \/ \E ws \in AiSockets : webSocketClose(ws)
        \/ \E ws \in AiSockets : webSocketCloseW(ws)
        \/ \E ws \in AiSockets, pc \in {"get", "run"} : Returns(Job(ws, pc))
        \/ \E ws \in AiSockets : PeerCloses(ws)

\* The browser runs onmessage for every message that has arrived; the
\* runtime hands every message that waits on a socket to webSocketMessage;
\* every call of a collaborator returns and the runtime resumes the
\* invocation that awaited it.
FairStatus ==
  /\ \A ws \in AiSockets : WF_vars(onmessage(ws))
  /\ \A ws \in AiSockets : SF_vars(Received /\ Takes(ws))
  /\ \A ws \in AiSockets, pc \in {"get", "run"} : SF_vars(Received /\ Returns(Job(ws, pc)))

SpecStatus == InitAi /\ [][NextStatus]_vars /\ FairStatus

\* C31: an editor whose aiStatus is "thinking" and whose socket stays open
\* eventually has aiStatus "idle" again, which only an ai-result sets: every
\* ai-summarize of a client that stays connected is followed by an ai-result
\* to that client, with or without a PDF and whether inference fails or not.
C31_StatusReturnsToIdle ==
  \A ws \in AiSockets :
    (aiStatus[ws] = "thinking") ~> (aiStatus[ws] = "idle" \/ chan[ws] # "open")

----------------------------------------------------------------------------
\* Every entry point of PDFSession: clients connect, leave, send annotations,
\* cursors and requests for summaries, and upload, download and save the
\* document.
\* Two clients.
FrameSockets == {1, 2}
FrameTexts == AiClientTexts \cup {JSONstringify(CursorMove)}
\* The requests: a form with the PDF, a form without a file, no form.
FrameRequests == {[file |-> f] : f \in Files} \cup {[note |-> "n"], NotFormData}

NextFrame ==
  \/ \E ws \in FrameSockets : handleWebSocket(ws)
  \/ \E ws \in FrameSockets, message \in FrameTexts : webSocketMessage(ws, message)
  \/ \E ws \in FrameSockets : webSocketClose(ws)
  \/ \E job \in BagToSet(jobs) : runAiSummaryGet(job)
  \/ \E job \in BagToSet(jobs), ok \in BOOLEAN : runAiSummaryRun(job, ok)
  \/ \E request \in FrameRequests, putOk, dbOk \in BOOLEAN : handleUpload(request, putOk, dbOk)
  \/ handleDownload
  \/ \E request \in FrameRequests, putOk \in BOOLEAN : handleSaveChanges(request, putOk)
  \/ \E ws \in FrameSockets : handleWebSocketW(ws)
  \/ \E ws \in FrameSockets, message \in FrameTexts : webSocketMessageW(ws, message)
  \/ \E ws \in FrameSockets : webSocketCloseW(ws)
  \/ \E job \in BagToSet(jobs) : runAiSummaryGetW(job)
  \/ \E job \in BagToSet(jobs), ok \in BOOLEAN : runAiSummaryRunW(job, ok)
  \/ \E request \in FrameRequests, putOk, dbOk \in BOOLEAN : handleUploadW(request, putOk, dbOk)
  \/ handleDownloadW
  \/ \E request \in FrameRequests, putOk \in BOOLEAN : handleSaveChangesW(request, putOk)
  \/ \E ws \in FrameSockets : PeerCloses(ws)

SpecFrame == Init /\ [][NextFrame]_vars

\* The step was webSocketMessage for a message whose type is sync-annotations.
IsSyncAnnotations(step) ==
  /\ step.op = "webSocketMessage"
  /\ LET data == JSONparse(step.text) IN
     "type" \in DOMAIN data /\ data.type = "sync-annotations"

\* What C32 asks of a step.
C32_Step == annotations' # annotations => IsSyncAnnotations(last')

\* C32: a step that changes PDFSession.annotations is webSocketMessage for a
\* sync-annotations: connecting, disconnecting, cursor-move, ai-summarize and
\* its resumptions, upload, download and save-changes leave the list as it is.
C32_OnlySyncChanges == [][C32_Step]_vars

\* Annotations are stored and the last step wrote the document to the bucket:
\* the list is still there.
C32_KeptAcrossUpload ==
  /\ annotations = <<"a1">>
  /\ last.op \in {"handleUpload", "handleSaveChanges"}
  /\ last.result = "200"
  /\ bucket # NoObject

----------------------------------------------------------------------------
\* The runtime removes an idle PDFSession from memory; the sockets it has
\* accepted with ctx.acceptWebSocket stay open.  For the next event the
\* runtime constructs the object again: the field initialisers and the
\* constructor run, and nothing reads ctx.getWebSockets().
constructor ==
  /\ jobs = EmptyBag
  /\ sessions' = <<>>
  /\ annotations' = <<>>
  /\ out' = <<>>
  /\ last' = Step("constructor", NoSocket, NoText, "ok", FALSE)
  /\ UNCHANGED <<impl, chan, bucket, jobs, synced>>
  /\ UNCHANGED <<inbox, editorVars, shardVars>>

\* Two clients connect, leave and send annotations; the object is taken out
\* of memory and constructed again in between.
NextWake ==
  \/ \E ws \in AiSockets : handleWebSocket(ws)
  \/ \E ws \in AiSockets, message \in OrderTexts : webSocketMessage(ws, message)
  \/ \E ws \in AiSockets : webSocketClose(ws)
  \/ \E ws \in AiSockets : handleWebSocketW(ws)
  \/ \E ws \in AiSockets, message \in OrderTexts : webSocketMessageW(ws, message)
  \/ \E ws \in AiSockets : webSocketCloseW(ws)
  \/ \E ws \in AiSockets : PeerCloses(ws)
  \/ constructor

SpecWake == Init /\ [][NextWake]_vars

\* C33: every client whose channel is open is in PDFSession.sessions, and
\* when the last step processed a sync-annotations every other client whose
\* channel is open was sent that message, also after the object's fields
\* were initialised again while accepted sockets stayed open.
C33_OpenIsRegistered ==
  /\ \A s \in AiSockets : chan[s] = "open" => s \in SeqToSet(sessions)
  /\ (last.op = "webSocketMessage" /\ last.text \in OrderTexts) =>
       \A s \in AiSockets \ {last.ws} :
         chan[s] = "open" => Deliveries(out, s, last.text) >= 1

----------------------------------------------------------------------------
\* handlePageTap in the editor at the client end of ws.  The ids of new
\* annotations (uuidv4) are not in the editor's list.
NewIds == <<"a1", "a2">>
Fresh(ws) ==
  LET free == {i \in 1..Len(NewIds) : /\ ~Includes(local[ws], NewIds[i])
                                      /\ ~Includes(pending[ws].annotations, NewIds[i])}
  IN {NewIds[i] : i \in {j \in free : \A k \in free : j <= k}}

\* With the text or the erase tool the handler calls syncAnnotations with the
\* annotations of the render it belongs to, and the new annotation.
handlePageTap(ws, id) ==
  /\ Len(local[ws]) < MaxAnns
  /\ syncAnnotations(ws, local[ws] \o <<id>>)

\* With the image tool the handler opens a file input and returns; onchange
\* and the FileReader's onload are closures of this call: the annotations
\* they see are those of the render the tap belongs to.
handlePageTapImage(ws) ==
  /\ chan[ws] = "open"
  /\ ~pending[ws].reading
  /\ Len(local[ws]) < MaxAnns
  /\ pending' = [pending EXCEPT ![ws] = [reading |-> TRUE, annotations |-> local[ws]]]
  /\ UNCHANGED <<sessionVars, inbox, file, clientAnnotations, deletedPages, modifiedBytes,
                  previousBytes, local, aiStatus, shardVars>>

\* reader.onload: the image is read; syncAnnotations is called with the
\* annotations the closure holds, and the image.
onload(ws, id) ==
  /\ pending[ws].reading
  /\ chan[ws] = "open"
  /\ InFlight(Sockets) < MaxInFlight
  /\ LET newAnnotations == pending[ws].annotations \o <<id>> IN
     /\ local' = [local EXCEPT ![ws] = newAnnotations]
     /\ inbox' = [inbox EXCEPT ![ws] = Append(@, JSONstringify(SyncAnnotations(newAnnotations)))]
  /\ pending' = [pending EXCEPT ![ws] = NotReading]
  /\ UNCHANGED <<sessionVars, file, clientAnnotations, deletedPages, modifiedBytes,
                  previousBytes, aiStatus, shardVars>>

\* Two editors connect, add text and images and leave.  What an editor sends
\* waits on its socket until webSocketMessage takes it; what the object sends
\* is taken by the editors before the object's next step.
NextTap ==
  \/ \E ws \in AiSockets : onmessage(ws)
  \/ \E ws \in AiSockets : \E id \in Fresh(ws) : handlePageTap(ws, id)
  \/ \E ws \in AiSockets : handlePageTapImage(ws)
  \/ \E ws \in AiSockets : \E id \in Fresh(ws) : onload(ws, id)
  \/ /\ Received
     /\ \/ \E ws \in AiSockets : handleWebSocket(ws)
        \/ \E ws \in AiSockets :
             inbox[ws] # <<>> /\ webSocketMessage(ws, Head(inbox[ws]))
        \/ \E ws \in AiSockets : webSocketClose(ws)
        \/ \E ws \in AiSockets : PeerCloses(ws)

SpecTap == InitDocuments /\ [][NextTap]_vars

\* The list that the editor at ws puts on its socket in this step.
Puts(ws) == JSONparse(inbox'[ws][Len(inbox'[ws])]).annotations

\* What C34 asks of a step.
C34_Step ==
  \A ws \in AiSockets :
    Len(inbox'[ws]) > Len(inbox[ws]) =>
      /\ Len(Puts(ws)) = Len(local[ws]) + 1
      /\ SubSeq(Puts(ws), 1, Len(local[ws])) = local[ws]

\* C34: the list an editor sends when it adds an annotation is its local
\* list at that moment with the new annotation appended, so no annotation it
\* holds, received from the Coordinator or made by itself, is dropped by its
\* own edit, also when the edit completes after a FileReader has read an
\* image.
C34_EditKeepsLocal == [][C34_Step]_vars

----------------------------------------------------------------------------
\* Routing.  A pathname is the sequence of its segments and of the "/"
\* between them: "/api/session/upload" is <<"/", "api", "/", "session", "/",
\* "upload">>.  A string without "/" is the sequence of its one segment.
Ops == {"upload", "download", "save-changes", "ws"}
Pathname(segments) ==
  [i \in 1..(2 * Len(segments)) |-> IF i % 2 = 1 THEN "/" ELSE segments[i \div 2]]
Pathnames ==
  {Pathname(<<"api", "session", op>>) : op \in Ops}
    \cup {Pathname(<<"api", "session">>), Pathname(<<"api", "session", "other">>),
          Pathname(<<"assets">>)}

\* String.split("/"): the pieces between the separators, "" before a leading one.
RECURSIVE split(_)
split(pathname) ==
  IF pathname = <<>> THEN <<"">>
  ELSE IF Head(pathname) = "/" THEN <<"">> \o split(Tail(pathname))
  ELSE LET rest == split(Tail(pathname)) IN <<Head(pathname) \o rest[1]>> \o Tail(rest)

\* Array.slice(start), Array.pop() and Array.join("/").
sliceFrom(list, start) == SubSeq(list, start + 1, Len(list))
pop(list) == list[Len(list)]
RECURSIVE join(_)
join(list) ==
  IF list = <<>> THEN <<>>
  ELSE IF Len(list) = 1 THEN <<list[1]>>
  ELSE <<list[1], "/">> \o join(Tail(list))

\* String.startsWith
startsWith(pathname, prefix) ==
  Len(pathname) >= Len(prefix) /\ SubSeq(pathname, 1, Len(prefix)) = prefix

\* new Response("Not found", {status: 404}) of fetch's default case.
NotFound(pathname) ==
  /\ UNCHANGED bucket
  /\ Responds(Step("fetch", NoSocket, [pathname |-> pathname], "404", FALSE))

\* src/unnamed/part_001, PDFSession.fetch
fetch(pathname, upgrade) ==
  /\ impl = "part_001"
  /\ LET path == pop(split(pathname)) IN
     IF upgrade
       THEN \E ws \in FrameSockets : handleWebSocket(ws)
     ELSE IF path = "upload"
       THEN \E request \in FrameRequests, putOk, dbOk \in BOOLEAN :
              handleUpload(request, putOk, dbOk)
     ELSE IF path = "download"
       THEN handleDownload
     ELSE IF path = "save-changes"
       THEN \E request \in FrameRequests, putOk \in BOOLEAN : handleSaveChanges(request, putOk)
     ELSE NotFound(pathname)

\* src/worker/pdf-session.ts, PDFSession.fetch
fetchW(pathname, upgrade) ==
  /\ impl = "worker"
  /\ LET path == join(sliceFrom(split(pathname), 2)) IN
     IF path = <<"ws">>
       THEN \E ws \in FrameSockets : handleWebSocketW(ws)
     ELSE IF path = <<"upload">>
       THEN \E request \in FrameRequests, putOk, dbOk \in BOOLEAN :
              handleUploadW(request, putOk, dbOk)
     ELSE IF path = <<"download">>
       THEN handleDownloadW
     ELSE IF path = <<"save-changes">>
       THEN \E request \in FrameRequests, putOk \in BOOLEAN : handleSaveChangesW(request, putOk)
     ELSE NotFound(pathname)

\* src/unnamed/part_000, fetch, for a request that is not a CORS preflight:
\* stub.fetch(request) hands PDFSession.fetch the request as it came.
routerFetch(pathname, upgrade) ==
  IF startsWith(pathname, Pathname(<<"api", "session">>))
    THEN fetch(pathname, upgrade) \/ fetchW(pathname, upgrade)
    ELSE /\ UNCHANGED bucket
         /\ Responds(Step("ready", NoSocket, [pathname |-> pathname], "200", FALSE))

\* Requests of every path arrive, with and without the Upgrade header;
\* the clients whose sockets were accepted leave.
NextRoute ==
  \/ \E pathname \in Pathnames, upgrade \in BOOLEAN : routerFetch(pathname, upgrade)
  \/ \E ws \in FrameSockets : webSocketClose(ws)
  \/ \E ws \in FrameSockets : PeerCloses(ws)

SpecRoute == Init /\ [][NextRoute]_vars

\* The handler of an operation.
HandlerOf(op) ==
  CASE op = "upload" -> "handleUpload"
    [] op = "download" -> "handleDownload"
    [] op = "save-changes" -> "handleSaveChanges"
    [] op = "ws" -> "handleWebSocket"

\* What C35 asks of a step: the request of a WebSocket carries the Upgrade
\* header, a request of fetch() does not.
C35_Step ==
  \A op \in Ops :
    routerFetch(Pathname(<<"api", "session", op>>), op = "ws") => last'.op = HandlerOf(op)

\* C35: in each implementation a request with the path /api/session/<op>
\* that the router forwards is handled by the handler of op (upload,
\* download, save-changes, ws), not by the 404 default of PDFSession.fetch.
C35_Dispatched == [][C35_Step]_vars

----------------------------------------------------------------------------
\* The invocations of runAiSummary for ws in J that are past the line that
\* sends the status: in src/unnamed/part_001 every suspended invocation (the
\* status is sent before the first await, 113), in the older implementation
\* those suspended at AI.run (the status is sent after PDF_BUCKET.get, 88).
Told(ws, J) ==
  CopiesIn(Job(ws, "run"), J) + (IF impl = "part_001" THEN CopiesIn(Job(ws, "get"), J) ELSE 0)

Thinking(o, ws) == {i \in 1..Len(o) : o[i] = Sent(ws, JSONstringify(AiStatus("thinking")))}
ResultsTo(o, ws) == {i \in 1..Len(o) : /\ o[i].to = ws
                                       /\ TypeOf(JSONparse(o[i].msg)) = "ai-result"}

\* What C36 asks of a step: the status is sent to ws exactly in the steps in
\* which a request of ws passes the status line; a step that sends ws the
\* result of its request ends an invocation that is past the status line
\* and sends ws no status.
C36_Step ==
  \A ws \in AiSockets :
    /\ (jobs' # jobs /\ Thinking(out', ws) # {}) => Told(ws, jobs') = Told(ws, jobs) + 1
    /\ Told(ws, jobs') > Told(ws, jobs) => Thinking(out', ws) # {}
    /\ (/\ jobs' # jobs
        /\ last'.op = "runAiSummary" /\ last'.ws = ws
        /\ ResultsTo(out', ws) # {}) =>
          /\ Told(ws, jobs) > 0
          /\ Told(ws, jobs') = Told(ws, jobs) - 1
          /\ Thinking(out', ws) = {}

\* C36: for every ai-summarize the requester is sent the ai-status
\* "thinking" before the ai-result of that request, and no status of the
\* request after it.
C36_StatusBeforeResult == [][C36_Step]_vars

\* A request has passed the status line and has now been answered: the
\* requester was sent the result for a session without a PDF, or a summary.
C36_AnsweredAfterStatus ==
  /\ last.op = "runAiSummary"
  /\ ResultsTo(out, last.ws) # {}
  /\ Thinking(out, last.ws) = {}
  /\ Told(last.ws, jobs) = 0

----------------------------------------------------------------------------
\* The older editor (pdf-editor.tsx 1-425): rectangles and texts are added
\* to its annotation list and undo takes the last one back.  last records
\* the handler that ran, with the tool and the page index or the text typed.

\* Variant: undo clears the list.
arraySliceNone(list, start, end) == <<>>

\* Array.slice(start, end) for start >= 0: a negative end counts from the
\* end of the array.
arraySlice(list, start, end) ==
  LET to == IF end < 0 THEN Len(list) + end ELSE Min(end, Len(list))
  IN SubSeq(list, start + 1, to)

\* uuidv4(): an id that no annotation of the list has.
uuidv4(list) == Len(list) + 1

EditorUnchanged ==
  /\ out' = <<>>
  /\ UNCHANGED <<impl, chan, sessions, annotations, bucket, jobs, synced>>
  /\ UNCHANGED <<inbox, file, deletedPages, modifiedBytes, previousBytes, local, aiStatus,
                  pending, shardVars>>

\* handlePageClick: the rect tool appends a rectangle; the text tool opens
\* the text input, and no tool does nothing.
handlePageClick(tool, pageIndex) ==
  /\ Len(clientAnnotations) < MaxAnns
  /\ clientAnnotations' =
       IF tool = "rect"
         THEN clientAnnotations \o
                <<Annotation("rect", uuidv4(clientAnnotations), pageIndex + 1)>>
         ELSE clientAnnotations
  /\ last' = Step("handlePageClick", NoSocket, [tool |-> tool, page |-> pageIndex], "ok", FALSE)
  /\ EditorUnchanged

\* handleTextSubmit: with the data of a click of the text tool and a text
\* typed, a text is appended.
handleTextSubmit(tempTextData, textInputValue) ==
  /\ Len(clientAnnotations) < MaxAnns
  /\ clientAnnotations' =
       IF tempTextData # NullValue /\ textInputValue # ""
         THEN clientAnnotations \o
                <<Annotation("text", uuidv4(clientAnnotations), tempTextData.page)>>
         ELSE clientAnnotations
  /\ last' = Step("handleTextSubmit", NoSocket,
                   [data |-> tempTextData, text |-> textInputValue], "ok", FALSE)
  /\ EditorUnchanged

undoAnnotation ==
  /\ clientAnnotations' = arraySlice(clientAnnotations, 0, -1)
  /\ last' = Step("undoAnnotation", NoSocket, NoText, "ok", FALSE)
  /\ EditorUnchanged

NextUndo ==
  \/ \E tool \in {"none", "text", "rect"}, pageIndex \in {0, 1} :
       handlePageClick(tool, pageIndex)
  \/ \E pageIndex \in {0, 1}, textInputValue \in {"", "T"} :
       handleTextSubmit([page |-> pageIndex + 1], textInputValue)
  \/ \E textInputValue \in {"", "T"} : handleTextSubmit(NullValue, textInputValue)
  \/ undoAnnotation

SpecUndo == Init /\ [][NextUndo]_vars

\* What C37 asks of a step: undo leaves the list without its last element,
\* the empty list empty; undoing what a step has added gives the list of
\* before.
C37_Step ==
  /\ last'.op = "undoAnnotation" =>
       /\ clientAnnotations = <<>> => clientAnnotations' = <<>>
       /\ clientAnnotations # <<>> =>
            /\ Len(clientAnnotations') = Len(clientAnnotations) - 1
            /\ \A i \in 1..Len(clientAnnotations') : clientAnnotations'[i] = clientAnnotations[i]
  /\ Len(clientAnnotations') > Len(clientAnnotations) =>
       arraySlice(clientAnnotations', 0, -1) = clientAnnotations

\* C37: undo removes exactly the last element of the annotation list and
\* keeps the others in their order; adding an annotation and undoing gives
\* the list of before, and undo on the empty list leaves it empty.
C37_UndoDropsLast == [][C37_Step]_vars

\* Undo has taken back the second of two annotations: the first is there.
C37_UndoneToOne ==
  /\ last.op = "undoAnnotation"
  /\ Len(clientAnnotations) = 1

====
